---- MODULE Spec2Model ----
(***************************************************************************)
(* A model of the clueless backend: the two crawlers (backend/graph and    *)
(* backend/graph_redo), the two Neo4j managers they write through, and the *)
(* query side (similarity ranking, shortest path).                         *)
(*                                                                         *)
(* The Neo4j database is modelled by what the Cypher statements of the     *)
(* source do: MERGE (match the pattern, create it when nothing matches),   *)
(* MATCH (no row, no effect), CREATE, SET, ON CREATE / ON MATCH.           *)
(***************************************************************************)
EXTENDS Integers, Sequences, FiniteSets, TLC

VARIABLES
    nodes,          \* the graph's nodes, in creation order (index = identity)
    rels,           \* the graph's relationships, in creation order
    now,            \* the wall clock read by datetime.utcnow() / datetime()
    upserted,       \* history: per URL, the last record create_page_node was
                    \* called with, when, and whether it was called before
    manager,        \* the package in use: "graph" or "graph_redo"
    cfg,            \* the crawler's construction arguments and crawl() arguments
    url_queue,      \* WebCrawler.url_queue
    visited_urls,   \* WebCrawler.visited_urls
    failed_urls,    \* WebCrawler.failed_urls (url -> error)
    url_depths,     \* crawl()'s url_depths (backend/graph)
    pages_crawled,  \* crawl()'s pages_crawled / stats['pages_crawled']
    pages_failed,   \* stats['pages_failed'] (backend/graph_redo)
    pc,             \* where the crawler is: "idle", "crawl", "done" (the loop
                    \* ended, crawl() returned its statistics), "interrupted"
                    \* (KeyboardInterrupt caught, statistics returned),
                    \* "raised" or "killed" (an exception, a KeyboardInterrupt
                    \* left crawl(): nothing returned)
    faults,         \* how many requests the environment has failed so far
    fetched,        \* history: the fetch_page calls, in order, each with the
                    \* server's answers and what the call returned
    env,            \* the environment: whether the graph database answers,
                    \* which credentials are set, and (history) how the
                    \* database was when the crawler was constructed
    answer,         \* the latest query call, the graph it ran on, what it returned
    node_embeddings_cache,  \* SemanticSearch._node_embeddings_cache
    callers         \* concurrent callers of the manager: for each, the call it
                    \* is in, how far its statement has run, what it matched

storeVars == <<nodes, rels, now, upserted>>

crawlVars ==
    <<cfg, url_queue, visited_urls, failed_urls, url_depths, pages_crawled,
      pages_failed, pc, faults, fetched, env>>

queryVars == <<answer, node_embeddings_cache, callers>>

vars == <<nodes, rels, now, upserted, manager, crawlVars, queryVars>>

(***************************************************************************)
(* Bounds of the model.                                                    *)
(***************************************************************************)
MaxNodes == 3
MaxRels == 2
MaxClock == 1
MaxRefs == 2
MaxFaults == 3

(***************************************************************************)
(* URL strings.  A URL is the record of the parts urlparse splits it into; *)
(* a path is the sequence of its tokens, "/" being a token of its own.     *)
(* Two records are equal exactly when the strings are.                     *)
(***************************************************************************)
Url(scheme, host, path, frag) ==
    [scheme |-> scheme, host |-> host, path |-> path, frag |-> frag]

\* str.lower() on one token
Lower(tok) ==
    CASE tok = "HTTP" -> "http"
      [] tok = "Site" -> "site"
      [] tok = "Products" -> "products"
      [] tok = "Admin" -> "admin"
      [] OTHER -> tok

LowerPath(p) == [i \in DOMAIN p |-> Lower(p[i])]

\* str.rstrip('/')
RECURSIVE RStrip(_)
RStrip(p) ==
    IF p # <<>> /\ p[Len(p)] = "/" THEN RStrip(SubSeq(p, 1, Len(p) - 1)) ELSE p

\* the place urlparse splits the parameters off the path: the first ";" after
\* the last "/", 0 when there is none
ParamsAt(p) ==
    LET slashes == {i \in DOMAIN p : p[i] = "/"}
        last == IF slashes = {} THEN 0 ELSE CHOOSE i \in slashes : \A j \in slashes : j <= i
        semis == {i \in DOMAIN p : i > last /\ p[i] = ";"}
    IN  IF semis = {} THEN 0 ELSE CHOOSE i \in semis : \A j \in semis : i <= j

\* urllib.parse.urlparse: the scheme comes back lower-cased, the rest as
\* written; the path ends where the parameters of its last segment begin
urlparse(u) ==
    LET i == ParamsAt(u.path)
    IN  [scheme |-> Lower(u.scheme), host |-> u.host, frag |-> u.frag,
         path |-> IF i = 0 THEN u.path ELSE SubSeq(u.path, 1, i - 1),
         params |-> IF i = 0 THEN <<>> ELSE SubSeq(u.path, i + 1, Len(u.path))]

\* urllib.parse.urlunparse: the string of the parts; non-empty parameters
\* follow the path after a ";", and after a host the path starts with "/"
urlunparse(scheme, host, path, params, frag) ==
    LET url == IF params # <<>> THEN path \o <<";">> \o params ELSE path
    IN  [scheme |-> scheme, host |-> host, frag |-> frag,
         path |-> IF host # "" /\ url # <<>> /\ url[1] # "/" THEN <<"/">> \o url ELSE url]

\* str.startswith on token sequences
StartsWith(p, pre) ==
    Len(pre) <= Len(p) /\ SubSeq(p, 1, Len(pre)) = pre

(***************************************************************************)
(* The property graph.                                                     *)
(***************************************************************************)
Null == -1
NoContent == ""
NoVector == <<>>

NewNode(label, key) ==
    [label |-> label, key |-> key, content |-> NoContent, vector |-> NoVector,
     first |-> Null, last |-> Null, refcount |-> Null]

NewRel(from, to, type, created_at) ==
    [from |-> from, to |-> to, type |-> type, created_at |-> created_at]

EmptyGraph == [nodes |-> <<>>, rels |-> <<>>]

Graph == [nodes |-> nodes, rels |-> rels]

\* MATCH (n:label {key}): the indices of the matching nodes
MatchNode(G, label, key) ==
    {i \in DOMAIN G.nodes : G.nodes[i].label = label /\ G.nodes[i].key = key}

\* a mutant of MergeNode: CREATE where the source says MERGE
CreateNode(G, label, key) ==
    [G EXCEPT !.nodes = Append(@, NewNode(label, key))]

\* MERGE (n:label {key}): creates the node when none matches
MergeNode(G, label, key) ==
    IF MatchNode(G, label, key) # {} THEN G
    ELSE [G EXCEPT !.nodes = Append(@, NewNode(label, key))]

\* the node a MERGE or MATCH bound (the constraint of one node per key is
\* what the claims are about, so the lowest index stands for "the" node)
TheNode(G, label, key) ==
    CHOOSE i \in MatchNode(G, label, key) :
        \A j \in MatchNode(G, label, key) : i <= j

\* MATCH (a)-[r:type]->(b)
MatchRel(G, from, to, type) ==
    {i \in DOMAIN G.rels :
        G.rels[i].from = from /\ G.rels[i].to = to /\ G.rels[i].type = type}

\* MERGE (a)-[r:type]->(b): any relationship of the type between the pair matches
MergeRel(G, from, to, type) ==
    IF MatchRel(G, from, to, type) # {} THEN G
    ELSE [G EXCEPT !.rels = Append(@, NewRel(from, to, type, Null))]

\* MERGE (a)-[r:type {created_at: t}]->(b): only a relationship carrying the
\* same property value matches
MergeRelProps(G, from, to, type, t) ==
    IF \E i \in MatchRel(G, from, to, type) : G.rels[i].created_at = t THEN G
    ELSE [G EXCEPT !.rels = Append(@, NewRel(from, to, type, t))]

\* null + 1 is null in Cypher
Plus1(x) == IF x = Null THEN Null ELSE x + 1

PageNodes(G, url) == MatchNode(G, "Page", url)

(***************************************************************************)
(* backend/graph_redo/neo4j_manager.py                                     *)
(***************************************************************************)
\* Neo4jManager.create_page_node: MERGE on the url, ON CREATE / ON MATCH SET
create_page_node(G, page_data, t) ==
    LET existed == MatchNode(G, "Page", page_data.url) # {}
        G1 == MergeNode(G, "Page", page_data.url)
        p == TheNode(G1, "Page", page_data.url)
    IN  [G1 EXCEPT !.nodes[p] =
            [@ EXCEPT !.content = page_data.content,
                      !.vector = page_data.vector,
                      !.first = IF existed THEN @ ELSE t,
                      !.last = t]]

valid_rel_types ==
    {"LINKS_TO", "LINKS_TO_EXTERNAL", "HAS_ELEMENT", "NAVIGATES_TO", "SIMILAR_TO"}

\* Neo4jManager.create_relationship: one Cypher statement per type; the
\* relationship pattern always carries created_at = utcnow()
create_relationship(G, from_url, to_url, rel_type, t) ==
    IF rel_type \notin valid_rel_types THEN G
    ELSE IF rel_type \in {"LINKS_TO", "SIMILAR_TO"} THEN
        IF MatchNode(G, "Page", from_url) = {} \/ MatchNode(G, "Page", to_url) = {}
        THEN G
        ELSE MergeRelProps(G, TheNode(G, "Page", from_url),
                           TheNode(G, "Page", to_url), rel_type, t)
    ELSE IF rel_type = "LINKS_TO_EXTERNAL" THEN
        IF MatchNode(G, "Page", from_url) = {} THEN G
        ELSE LET existed == MatchNode(G, "ExternalLink", to_url) # {}
                 G1 == MergeNode(G, "ExternalLink", to_url)
                 e == TheNode(G1, "ExternalLink", to_url)
                 G2 == [G1 EXCEPT !.nodes[e] =
                          IF existed
                          THEN [@ EXCEPT !.refcount = Plus1(@)]
                          ELSE [@ EXCEPT !.first = t, !.refcount = 1]]
             IN  MergeRelProps(G2, TheNode(G2, "Page", from_url), e, rel_type, t)
    ELSE IF rel_type = "HAS_ELEMENT" THEN
        IF MatchNode(G, "Page", from_url) = {} THEN G
        ELSE LET G1 == MergeNode(G, "Element", to_url)
             IN  MergeRelProps(G1, TheNode(G1, "Page", from_url),
                               TheNode(G1, "Element", to_url), rel_type, t)
    ELSE \* NAVIGATES_TO
        IF MatchNode(G, "Element", from_url) = {} \/ MatchNode(G, "Page", to_url) = {}
        THEN G
        ELSE MergeRelProps(G, TheNode(G, "Element", from_url),
                           TheNode(G, "Page", to_url), rel_type, t)

(***************************************************************************)
(* backend/graph/neo4j_manager.py                                          *)
(***************************************************************************)
\* Neo4jManager.create_page_node: MERGE on the url, SET; the vector is set
\* only when page_data carries a non-empty one
g_create_page_node_needs_vector(G, page_data, t) ==
    IF page_data.vector = NoVector THEN G
    ELSE LET G1 == MergeNode(G, "Page", page_data.url)
             p == TheNode(G1, "Page", page_data.url)
         IN  [G1 EXCEPT !.nodes[p] =
                 [@ EXCEPT !.content = page_data.content,
                           !.vector = page_data.vector,
                           !.last = t]]

g_create_page_node(G, page_data, t) ==
    LET G1 == MergeNode(G, "Page", page_data.url)
        p == TheNode(G1, "Page", page_data.url)
    IN  [G1 EXCEPT !.nodes[p] =
            [@ EXCEPT !.content = page_data.content,
                      !.vector = IF page_data.vector # NoVector
                                 THEN page_data.vector ELSE @,
                      !.last = t]]

\* Neo4jManager.create_relationship: MERGE both pages, MERGE the relationship
g_create_relationship(G, from_url, to_url, rel_type) ==
    LET G1 == MergeNode(G, "Page", from_url)
        G2 == MergeNode(G1, "Page", to_url)
    IN  MergeRel(G2, TheNode(G2, "Page", from_url), TheNode(G2, "Page", to_url),
                 rel_type)

\* Neo4jManager.create_external_link
create_external_link(G, from_url, external_url, t) ==
    LET G1 == MergeNode(G, "Page", from_url)
        existed == MatchNode(G1, "ExternalLink", external_url) # {}
        G2 == MergeNode(G1, "ExternalLink", external_url)
        e == TheNode(G2, "ExternalLink", external_url)
        G3 == [G2 EXCEPT !.nodes[e] =
                 IF existed
                 THEN [@ EXCEPT !.refcount = Plus1(@)]
                 ELSE [@ EXCEPT !.first = t, !.refcount = 1]]
    IN  MergeRel(G3, TheNode(G3, "Page", from_url), e, "LINKS_TO_EXTERNAL")

\* Neo4jManager.create_element_node: MATCH the page, CREATE the element and
\* its HAS_ELEMENT relationship
create_element_node(G, page_url, element_id) ==
    IF MatchNode(G, "Page", page_url) = {} THEN G
    ELSE LET G1 == [G EXCEPT !.nodes = Append(@, NewNode("Element", element_id))]
         IN  [G1 EXCEPT !.rels =
                Append(@, NewRel(TheNode(G1, "Page", page_url), Len(G1.nodes),
                                 "HAS_ELEMENT", Null))]

(***************************************************************************)
(* The store on its own: a caller that makes any write calls in any order, *)
(* through the Neo4jManager of its package.                                *)
(***************************************************************************)
HomeUrl == Url("http", "site", <<"/">>, "")
ProductsUrl == Url("http", "site", <<"/", "products">>, "")
CheckoutUrl == Url("http", "site", <<"/", "checkout">>, "")
ExternalUrl == Url("http", "external", <<>>, "")
BuyButton == [elem |-> "btn-buy"]

StoreUrls == {HomeUrl, ProductsUrl}
PageInputs ==
    {[url |-> HomeUrl, content |-> "c1", vector |-> <<1, 0>>],
     [url |-> HomeUrl, content |-> "c2", vector |-> NoVector],
     [url |-> ProductsUrl, content |-> "c1", vector |-> <<1, 0>>]}
\* the create_relationship calls the caller makes: (from_url, to_url, rel_type)
RelCalls ==
    {<<HomeUrl, ProductsUrl, "LINKS_TO">>,
     <<ProductsUrl, HomeUrl, "LINKS_TO">>,
     <<HomeUrl, ProductsUrl, "SIMILAR_TO">>,
     <<HomeUrl, ExternalUrl, "LINKS_TO_EXTERNAL">>,
     <<HomeUrl, BuyButton, "HAS_ELEMENT">>,
     <<BuyButton, ProductsUrl, "NAVIGATES_TO">>,
     <<HomeUrl, ProductsUrl, "REFERS_TO">>}

\* history of one create_page_node call
Upserted(pd, t) ==
    [u \in DOMAIN upserted \cup {pd.url} |->
        IF u = pd.url
        THEN [content |-> pd.content, vector |-> pd.vector, at |-> t,
              again |-> pd.url \in DOMAIN upserted]
        ELSE upserted[u]]

InBounds(G) ==
    /\ Len(G.nodes) <= MaxNodes
    /\ Len(G.rels) <= MaxRels
    /\ \A i \in DOMAIN G.nodes : G.nodes[i].refcount <= MaxRefs

SetGraph(G) ==
    /\ InBounds(G)
    /\ nodes' = G.nodes
    /\ rels' = G.rels

NoMap == [u \in {} |-> 0]

\* no query has been made
QueryIdle ==
    /\ answer = [op |-> "none"]
    /\ node_embeddings_cache = NoMap
    /\ callers = <<>>

Env(db_up, neo4j_password, openai_api_key, constructed) ==
    [db_up |-> db_up, neo4j_password |-> neo4j_password,
     openai_api_key |-> openai_api_key, constructed |-> constructed]

\* no crawler is running
CrawlIdle ==
    /\ cfg = [base_url |-> Url("", "", <<>>, ""), blacklist |-> <<>>, max_pages |-> 0,
              max_depth |-> 0, site |-> ""]
    /\ url_queue = <<>>
    /\ visited_urls = {}
    /\ failed_urls = NoMap
    /\ url_depths = NoMap
    /\ pages_crawled = 0
    /\ pages_failed = 0
    /\ pc = "idle"
    /\ faults = 0
    /\ fetched = <<>>
    /\ env = Env(TRUE, TRUE, TRUE, "no")

StoreInit ==
    /\ nodes = <<>>
    /\ rels = <<>>
    /\ now = 0
    /\ upserted = NoMap
    /\ manager \in {"graph", "graph_redo"}
    /\ CrawlIdle
    /\ QueryIdle

Tick ==
    /\ now < MaxClock
    /\ now' = now + 1
    /\ UNCHANGED <<nodes, rels, upserted, manager, crawlVars, queryVars>>

\* a create_page_node call with one of the given records
UpsertPageFrom(inputs) ==
    /\ manager = "graph_redo"
    /\ \E pd \in inputs :
        /\ SetGraph(create_page_node(Graph, pd, now))
        /\ upserted' = Upserted(pd, now)
    /\ UNCHANGED <<now, manager, crawlVars, queryVars>>

UpsertPage == UpsertPageFrom(PageInputs)

UpsertRelationship ==
    /\ manager = "graph_redo"
    /\ \E c \in RelCalls :
        SetGraph(create_relationship(Graph, c[1], c[2], c[3], now))
    /\ UNCHANGED <<now, upserted, manager, crawlVars, queryVars>>

GUpsertPage ==
    /\ manager = "graph"
    /\ \E pd \in PageInputs :
        /\ SetGraph(g_create_page_node(Graph, pd, now))
        /\ upserted' = Upserted(pd, now)
    /\ UNCHANGED <<now, manager, crawlVars, queryVars>>

GUpsertRelationship ==
    /\ manager = "graph"
    /\ \E from \in StoreUrls, to \in StoreUrls :
        SetGraph(g_create_relationship(Graph, from, to, "LINKS_TO"))
    /\ UNCHANGED <<now, upserted, manager, crawlVars, queryVars>>

GExternalLink ==
    /\ manager = "graph"
    /\ \E from \in StoreUrls :
        SetGraph(create_external_link(Graph, from, ExternalUrl, now))
    /\ UNCHANGED <<now, upserted, manager, crawlVars, queryVars>>

GElementNode ==
    /\ manager = "graph"
    /\ \E page \in StoreUrls :
        SetGraph(create_element_node(Graph, page, BuyButton))
    /\ UNCHANGED <<now, upserted, manager, crawlVars, queryVars>>

StoreNext ==
    \/ Tick
    \/ UpsertPage
    \/ UpsertRelationship
    \/ GUpsertPage
    \/ GUpsertRelationship
    \/ GExternalLink
    \/ GElementNode

SpecStore == StoreInit /\ [][StoreNext]_vars

\* the HAS_ELEMENT relationships that end at node e
OwnerRels(G, e) ==
    {r \in DOMAIN G.rels : G.rels[r].to = e /\ G.rels[r].type = "HAS_ELEMENT"}

\* C34: every Element node has exactly one incoming HAS_ELEMENT
\* relationship, and it comes from a Page, after any sequence of upserts,
\* two pages carrying an element with the same id included.
C34_ElementHasOneOwner ==
    \A e \in DOMAIN nodes :
        nodes[e].label = "Element"
        => /\ Cardinality(OwnerRels(Graph, e)) = 1
           /\ \A r \in OwnerRels(Graph, e) : nodes[rels[r].from].label = "Page"

\* the Element nodes with the given id that page node p owns
OwnedElements(G, p, id) ==
    {e \in DOMAIN G.nodes :
        /\ G.nodes[e].label = "Element" /\ G.nodes[e].key = id
        /\ \E r \in OwnerRels(G, e) : G.rels[r].from = p}

\* C35: storing a page's unchanged elements again adds no Element node: a
\* page owns at most one Element node for each element id, however often
\* the element was stored for it.
C35_ElementsUpdatedInPlace ==
    \A p \in DOMAIN nodes : \A e \in DOMAIN nodes :
        nodes[p].label = "Page" /\ nodes[e].label = "Element"
        => Cardinality(OwnedElements(Graph, p, nodes[e].key)) <= 1

(***************************************************************************)
(* Two callers upsert one Page URL at the same time.  backend/graph's      *)
(* manager creates the uniqueness constraint on Page.url, under which a    *)
(* MERGE locks the key and runs as one step; backend/graph_redo's manager  *)
(* creates no constraint, and its MERGE matches first and creates later,   *)
(* with the other caller's statement free to run in between.               *)
(***************************************************************************)
RaceUrl == Url("http", "site", <<"/">>, "")

RacePageData ==
    {[url |-> RaceUrl, content |-> content, vector |-> vector] :
        content \in {"c1", "c2"}, vector \in {<<1, 0>>, NoVector}}

Caller(at, page_data, matched) ==
    [at |-> at, page_data |-> page_data, matched |-> matched]

RaceInit ==
    /\ \E G \in {EmptyGraph, create_page_node(EmptyGraph,
                    [url |-> RaceUrl, content |-> "c3", vector |-> <<0, 1>>], 0)} :
        nodes = G.nodes /\ rels = G.rels
    /\ now = 0
    /\ upserted = NoMap
    /\ manager \in {"graph", "graph_redo"}
    /\ CrawlIdle
    /\ answer = [op |-> "none"]
    /\ node_embeddings_cache = NoMap
    /\ callers \in [1..2 -> {Caller("start", d, {}) : d \in RacePageData}]

\* backend/graph create_page_node under the page_url_unique constraint
GRaceUpsert ==
    /\ manager = "graph"
    /\ \E c \in DOMAIN callers :
        /\ callers[c].at = "start"
        /\ LET G == g_create_page_node(Graph, callers[c].page_data, now)
           IN  nodes' = G.nodes /\ rels' = G.rels
        /\ callers' = [callers EXCEPT ![c].at = "done"]
    /\ UNCHANGED <<now, upserted, manager, crawlVars, answer, node_embeddings_cache>>

\* backend/graph_redo create_page_node, first half of MERGE (p:Page {url})
\* with no constraint: the nodes the pattern matches are read
RaceMatch ==
    /\ manager = "graph_redo"
    /\ \E c \in DOMAIN callers :
        /\ callers[c].at = "start"
        /\ callers' = [callers EXCEPT
                         ![c].at = "matched",
                         ![c].matched = MatchNode(Graph, "Page", callers[c].page_data.url)]
    /\ UNCHANGED <<storeVars, manager, crawlVars, answer, node_embeddings_cache>>

\* second half: ON CREATE SET on a new node when nothing matched, ON MATCH
\* SET on every matched node otherwise
RaceWrite ==
    /\ manager = "graph_redo"
    /\ \E c \in DOMAIN callers :
        /\ callers[c].at = "matched"
        /\ LET d == callers[c].page_data
               created == callers[c].matched = {}
               bound == IF created THEN {Len(nodes) + 1} ELSE callers[c].matched
               all == IF created THEN Append(nodes, NewNode("Page", d.url)) ELSE nodes
           IN  nodes' = [i \in DOMAIN all |->
                            IF i \in bound
                            THEN [all[i] EXCEPT !.content = d.content,
                                                !.vector = d.vector,
                                                !.first = IF created THEN now ELSE @,
                                                !.last = now]
                            ELSE all[i]]
        /\ callers' = [callers EXCEPT ![c].at = "done"]
    /\ UNCHANGED <<rels, now, upserted, manager, crawlVars, answer,
                   node_embeddings_cache>>

RaceTick ==
    /\ callers # <<>>
    /\ Tick

RaceNext == GRaceUpsert \/ RaceMatch \/ RaceWrite \/ RaceTick

SpecRace == RaceInit /\ [][RaceNext]_vars

\* the callers whose statement sets content_vector: backend/graph's sets it
\* only when the page data carries a vector
WroteVector ==
    {c \in DOMAIN callers : manager = "graph_redo" \/ callers[c].page_data.vector # NoVector}

\* C31: when two callers have upserted the same Page URL concurrently, the
\* graph holds exactly one Page node for the URL, and its content and its
\* vector are each a value one of the two callers wrote (the vector, when a
\* caller wrote one).
C31_ConcurrentUpsertOneNode ==
    (callers # <<>> /\ \A c \in DOMAIN callers : callers[c].at = "done")
    => /\ Cardinality(MatchNode(Graph, "Page", RaceUrl)) = 1
       /\ \A n \in MatchNode(Graph, "Page", RaceUrl) :
            /\ \E c \in DOMAIN callers : nodes[n].content = callers[c].page_data.content
            /\ WroteVector # {}
               => \E c \in WroteVector : nodes[n].vector = callers[c].page_data.vector

(***************************************************************************)
(* Claims about the store.                                                 *)
(***************************************************************************)
\* C1: after any sequence of page upserts there is exactly one Page node for
\* each URL that was upserted, and that node carries the fields and the
\* last-crawled time of the latest upsert (a repeated upsert updates the node
\* in place).  The graph manager keeps the stored vector when the record has
\* none, so the vector is compared only when the record carries one.
C1_OnePagePerUrl ==
    \A u \in DOMAIN upserted :
        /\ Cardinality(PageNodes(Graph, u)) = 1
        /\ LET n == nodes[TheNode(Graph, "Page", u)]
           IN  /\ n.content = upserted[u].content
               /\ n.last = upserted[u].at
               /\ upserted[u].vector # NoVector => n.vector = upserted[u].vector

\* a URL upserted a second time, later and with other content than the first
C1_Witness ==
    \E u \in DOMAIN upserted :
        /\ upserted[u].again
        /\ upserted[u].at = now
        /\ now > 0
        /\ upserted[u].content = "c2"
        /\ Cardinality(PageNodes(Graph, u)) = 1

LinkingPages(G, e) ==
    {p \in DOMAIN G.nodes :
        /\ G.nodes[p].label = "Page"
        /\ \E i \in DOMAIN G.rels :
            /\ G.rels[i].type = "LINKS_TO_EXTERNAL"
            /\ G.rels[i].from = p /\ G.rels[i].to = e}

\* C20: an ExternalLink node's reference_count is the number of distinct
\* pages that link to its URL: a page that links to it several times, or is
\* stored again by a re-crawl, counts once.
C20_ReferenceCountIsLinkingPages ==
    \A e \in DOMAIN nodes :
        nodes[e].label = "ExternalLink"
        => nodes[e].refcount = Cardinality(LinkingPages(Graph, e))

(***************************************************************************)
(* The crawled site: what the server answers, and the anchors of each page *)
(* as urljoin hands them to extract_links (absolute URLs, as written).     *)
(***************************************************************************)
Http(host, path, frag) == Url("http", host, path, frag)

AdminUrl == Http("site", <<"/", "admin">>, "")
\* a document that is no page, and a link of another scheme
ReportUrl == Http("site", <<"/", "report.pdf">>, "")
FtpUrl == Url("ftp", "site", <<"/", "files">>, "")

\* the page the server serves for a URL ("none": 404); hosts and paths are
\* matched without regard to case, a trailing slash or a fragment
PageOf(u) ==
    LET path == RStrip(LowerPath(u.path))
    IN  IF Lower(u.scheme) # "http" \/ Lower(u.host) # "site" THEN "none"
        ELSE CASE path = <<>> -> "home"
               [] path = <<"/", "products">> -> "products"
               [] path = <<"/", "checkout">> -> "checkout"
               [] StartsWith(path, <<"/", "admin">>) -> "admin"
               [] OTHER -> "none"

\* an href urlsplit refuses (ValueError: Invalid IPv6 URL): http://[bad
MalformedUrl == Url("http", "[bad", <<>>, "")

\* urljoin(base_url, href) raises for one of the anchors of the page
urljoin_raises(anchors) == \E i \in DOMAIN anchors : anchors[i] = MalformedUrl

Sites == {"shop", "backoffice", "loop", "broken", "diamond"}

Anchors(site, page) ==
    CASE site = "shop" /\ page = "home" -> <<ProductsUrl, ExternalUrl>>
      [] site = "shop" /\ page = "products" -> <<CheckoutUrl>>
      [] site = "backoffice" /\ page = "home" ->
            <<AdminUrl, ProductsUrl, ReportUrl, FtpUrl>>
      [] site = "backoffice" /\ page = "products" ->
            <<Http("site", <<"/", "admin", "/", "users">>, ""), ExternalUrl>>
      [] site = "loop" /\ page = "home" ->
            <<Http("Site", <<"/", "Products", "/">>, ""),
              Http("site", <<"/", "products">>, "top"),
              HomeUrl>>
      [] site = "loop" /\ page = "products" ->
            <<Http("site", <<>>, ""), Http("site", <<"/", "checkout", "/">>, ""),
              Http("site", <<"/", "missing">>, ""), ExternalUrl>>
      [] site = "loop" /\ page = "checkout" -> <<ProductsUrl, ExternalUrl>>
      [] site = "broken" /\ page = "home" -> <<ProductsUrl, CheckoutUrl>>
      [] site = "broken" /\ page = "products" -> <<MalformedUrl>>
      [] site = "diamond" /\ page = "home" -> <<ProductsUrl, CheckoutUrl>>
      [] site = "diamond" /\ page = "products" -> <<CheckoutUrl>>
      [] OTHER -> <<>>

\* the ids of the <button> elements of a page
Buttons(site, page) ==
    IF site = "shop" /\ page = "products" THEN <<BuyButton>> ELSE <<>>

\* the page text, and the vector the embedding service returns for it
TextOf(page) == page
Embedding(text) ==
    CASE text = "home" -> <<1, 0>>
      [] text = "products" -> <<1, 1>>
      [] text = "checkout" -> <<0, 1>>
      [] OTHER -> <<-1, 1>>

\* WebCrawler.__init__'s default (backend/graph/crawler.py)
max_retries == 3

\* what the server may answer to one request for a URL
Answers == {"200", "200-not-html", "404", "403", "501", "503", "timeout", "error"}
\* the answers after which httpx is asked again
Retried == {"503", "timeout"}

\* the answers one fetch_page call can get: every request but the last one
\* answered by something the call retries, at most max_retries requests
AnswerLogs ==
    {log \in UNION {[1..n -> Answers] : n \in 1..max_retries} :
        /\ \A i \in 1..(Len(log) - 1) : log[i] \in Retried
        /\ Len(log) < max_retries => log[Len(log)] \notin Retried}

ServerAnswers(u) ==
    IF PageOf(u) = "none" THEN {<<"404">>} ELSE AnswerLogs

(***************************************************************************)
(* backend/graph/crawler.py                                                *)
(***************************************************************************)
\* WebCrawler._normalize_url
_normalize_url(url) ==
    LET parsed == urlparse(url)
    IN  urlunparse(parsed.scheme, parsed.host,
                   IF parsed.path # <<"/">> THEN RStrip(parsed.path) ELSE <<"/">>,
                   parsed.params, "")

excluded_extensions == {"logo.png", "report.pdf"}

\* WebCrawler.is_valid_url (base_domain is the netloc of the normalized base_url)
g_is_valid_url(url, base_domain) ==
    LET parsed == urlparse(url)
    IN  /\ parsed.scheme \in {"http", "https"}
        /\ parsed.host = base_domain
        /\ ~(parsed.path # <<>> /\ Lower(parsed.path[Len(parsed.path)]) \in excluded_extensions)

\* the retry loop of WebCrawler.fetch_page: `response` keeps the last response
\* client.get returned, whatever its status
RECURSIVE fetch_loop(_, _, _, _)
fetch_loop(attempt, response, last_error, answers) ==
    IF attempt = max_retries
    THEN [returned |-> FALSE, response |-> response, error |-> last_error,
          requests |-> attempt]
    ELSE LET a == answers[attempt + 1]
         IN  CASE a \in {"200", "200-not-html"} ->
                    [returned |-> FALSE, response |-> a, error |-> last_error,
                     requests |-> attempt + 1]
               [] a = "404" ->
                    [returned |-> TRUE, response |-> a, error |-> "404 Not Found",
                     requests |-> attempt + 1]
               [] a = "503" -> fetch_loop(attempt + 1, a, a, answers)
               [] a = "timeout" -> fetch_loop(attempt + 1, response, a, answers)
               [] a = "error" ->
                    [returned |-> TRUE, response |-> response, error |-> a,
                     requests |-> attempt + 1]
               [] OTHER ->
                    [returned |-> TRUE, response |-> a, error |-> a,
                     requests |-> attempt + 1]

\* a mutant of fetch_page: after the loop it tests last_error, not response
fetch_page_last_error(url, answers) ==
    LET r == fetch_loop(0, "none", "none", answers)
        log == SubSeq(answers, 1, r.requests)
    IN  IF r.returned \/ r.error # "none"
        THEN [page |-> FALSE, status |-> "", failed |-> r.error, log |-> log]
        ELSE IF r.response = "200-not-html"
        THEN [page |-> FALSE, status |-> "", failed |-> "", log |-> log]
        ELSE [page |-> TRUE, status |-> r.response, failed |-> "", log |-> log]

\* a mutant of fetch_page: a request the loop gives up on is not recorded
fetch_page_unrecorded(url, answers) ==
    LET r == fetch_loop(0, "none", "none", answers)
        log == SubSeq(answers, 1, r.requests)
    IN  IF r.returned THEN [page |-> FALSE, status |-> "", failed |-> "", log |-> log]
        ELSE IF r.response = "none"
        THEN [page |-> FALSE, status |-> "", failed |-> r.error, log |-> log]
        ELSE IF r.response = "200-not-html"
        THEN [page |-> FALSE, status |-> "", failed |-> "", log |-> log]
        ELSE [page |-> TRUE, status |-> r.response, failed |-> "", log |-> log]

\* a mutant of fetch_page: a response that is not HTML is recorded as failed
fetch_page_fails_non_html(url, answers) ==
    LET r == fetch_loop(0, "none", "none", answers)
        log == SubSeq(answers, 1, r.requests)
    IN  IF r.returned THEN [page |-> FALSE, status |-> "", failed |-> r.error, log |-> log]
        ELSE IF r.response = "none"
        THEN [page |-> FALSE, status |-> "", failed |-> r.error, log |-> log]
        ELSE IF r.response = "200-not-html"
        THEN [page |-> FALSE, status |-> "", failed |-> r.response, log |-> log]
        ELSE [page |-> TRUE, status |-> r.response, failed |-> "", log |-> log]

\* WebCrawler.fetch_page: the page data (or none), the entry it adds to
\* failed_urls (or ""), and the answers it consumed
fetch_page(url, answers) ==
    LET r == fetch_loop(0, "none", "none", answers)
        log == SubSeq(answers, 1, r.requests)
    IN  IF r.returned THEN [page |-> FALSE, status |-> "", failed |-> r.error, log |-> log]
        ELSE IF r.response = "none"
        THEN [page |-> FALSE, status |-> "", failed |-> r.error, log |-> log]
        ELSE IF r.response = "200-not-html"
        THEN [page |-> FALSE, status |-> "", failed |-> "", log |-> log]
        ELSE [page |-> TRUE, status |-> r.response, failed |-> "", log |-> log]

\* WebCrawler.extract_links: anchors normalized and tagged internal / external
RECURSIVE g_extract_links(_, _)
g_extract_links(anchors, base_domain) ==
    IF anchors = <<>> THEN <<>>
    ELSE LET a == Head(anchors)
             rest == g_extract_links(Tail(anchors), base_domain)
         IN  IF a.scheme \in {"javascript", "mailto"} THEN rest
             ELSE <<[url |-> _normalize_url(a),
                     is_external |-> ~g_is_valid_url(_normalize_url(a), base_domain)]>>
                  \o rest

QueueUrls(queue) == {queue[i].url : i \in DOMAIN queue}

\* WebCrawler.should_crawl
g_should_crawl(url, queue, visited, failed, base_domain) ==
    LET normalized_url == _normalize_url(url)
    IN  /\ normalized_url \notin visited
        /\ normalized_url \notin QueueUrls(queue)
        /\ g_is_valid_url(normalized_url, base_domain)
        /\ normalized_url \notin DOMAIN failed

\* WebCrawler.update_queue
RECURSIVE g_update_queue(_, _, _, _, _)
g_update_queue(queue, new_urls, visited, failed, base_domain) ==
    IF new_urls = <<>> THEN queue
    ELSE LET normalized_url == _normalize_url(Head(new_urls))
             q == IF g_should_crawl(normalized_url, queue, visited, failed, base_domain)
                  THEN Append(queue, [url |-> normalized_url, depth |-> Null])
                  ELSE queue
         IN  g_update_queue(q, Tail(new_urls), visited, failed, base_domain)

\* WebCrawler.store_to_neo4j: the page node, then one write per link, then one
\* per element
RECURSIVE g_store_links(_, _, _, _)
g_store_links(G, page_url, links, t) ==
    IF links = <<>> THEN G
    ELSE LET l == Head(links)
             G1 == IF l.is_external
                   THEN create_external_link(G, page_url, l.url, t)
                   ELSE g_create_relationship(G, page_url, l.url, "LINKS_TO")
         IN  g_store_links(G1, page_url, Tail(links), t)

RECURSIVE g_store_elements(_, _, _)
g_store_elements(G, page_url, elements) ==
    IF elements = <<>> THEN G
    ELSE g_store_elements(create_element_node(G, page_url, Head(elements)),
                          page_url, Tail(elements))

g_store_to_neo4j(G, page_data, links_data, t) ==
    g_store_elements(
        g_store_links(g_create_page_node(G, page_data, t), page_data.url, links_data, t),
        page_data.url, page_data.elements)

\* crawl(): the depth bookkeeping and the new_urls list of one page
RECURSIVE g_new_urls(_, _)
g_new_urls(links, visited) ==
    IF links = <<>> THEN <<>>
    ELSE LET l == Head(links)
         IN  (IF ~l.is_external /\ l.url \notin visited THEN <<l.url>> ELSE <<>>)
             \o g_new_urls(Tail(links), visited)

SeqToSet(q) == {q[i] : i \in DOMAIN q}

g_new_depths(depths, new_urls, depth) ==
    [u \in DOMAIN depths \cup SeqToSet(new_urls) |->
        IF u \in SeqToSet(new_urls) THEN depth ELSE depths[u]]

\* the body the server sent: the page, or its error page
BodyPage(url, status) == IF status = "200" THEN PageOf(url) ELSE "error-page"

\* the condition of crawl()'s while loop (both packages)
loop_condition_off_by_one(queue, crawled, max_pages) ==
    queue # <<>> /\ crawled <= max_pages

loop_condition(queue, crawled, max_pages) ==
    queue # <<>> /\ crawled < max_pages

\* requests the environment failed, among the answers one call consumed
Faults(url, log) ==
    IF PageOf(url) = "none" THEN 0
    ELSE Cardinality({i \in DOMAIN log : log[i] \notin {"200", "ok"}})

Fetched(url, log, returned, embedded) ==
    Append(fetched, [url |-> url, log |-> log, returned |-> returned,
                     embedded |-> embedded, crawled |-> pages_crawled])

\* WebCrawler.__init__ and the first lines of crawl()
GInit(base_url) ==
    /\ url_queue = <<[url |-> _normalize_url(base_url), depth |-> Null]>>
    /\ url_depths = [u \in {_normalize_url(base_url)} |-> 0]

base_domain == urlparse(_normalize_url(cfg.base_url)).host

\* one iteration of the while loop of WebCrawler.crawl
GCrawlStep ==
    /\ pc = "crawl"
    /\ manager = "graph"
    /\ loop_condition(url_queue, pages_crawled, cfg.max_pages)
    /\ LET current_url == Head(url_queue).url
           queue == Tail(url_queue)
           current_depth == IF current_url \in DOMAIN url_depths
                            THEN url_depths[current_url] ELSE 0
       IN  IF current_depth > cfg.max_depth \/ current_url \in visited_urls
           THEN /\ url_queue' = queue
                /\ UNCHANGED <<nodes, rels, visited_urls, failed_urls, url_depths,
                               pages_crawled, faults, fetched, pc>>
           ELSE \E answers \in ServerAnswers(current_url) :
                LET r == fetch_page(current_url, answers)
                    visited == visited_urls \cup {current_url}
                IN  /\ faults + Faults(current_url, r.log) <= MaxFaults
                    /\ visited_urls' = visited
                    /\ IF ~r.page
                       THEN /\ failed_urls' =
                                 IF r.failed = "" THEN failed_urls
                                 ELSE [u \in DOMAIN failed_urls \cup {current_url} |->
                                         IF u = current_url THEN r.failed
                                         ELSE failed_urls[u]]
                            /\ url_queue' = queue
                            /\ faults' = faults + Faults(current_url, r.log)
                            /\ fetched' = Fetched(current_url, r.log, "none", FALSE)
                            /\ UNCHANGED <<nodes, rels, url_depths, pages_crawled, pc>>
                       ELSE IF urljoin_raises(Anchors(cfg.site,
                                                      BodyPage(current_url, r.status)))
                       \* parse_page: extract_links raises, nothing in crawl()
                       \* catches it
                       THEN /\ pc' = "raised"
                            /\ url_queue' = queue
                            /\ faults' = faults + Faults(current_url, r.log)
                            /\ fetched' = Fetched(current_url, r.log, "raised", FALSE)
                            /\ UNCHANGED <<nodes, rels, failed_urls, url_depths,
                                           pages_crawled>>
                       ELSE \E embedded \in BOOLEAN :
                            LET page == BodyPage(current_url, r.status)
                                links == g_extract_links(Anchors(cfg.site, page),
                                                         base_domain)
                                page_data ==
                                    [url |-> _normalize_url(current_url),
                                     content |-> TextOf(page),
                                     vector |-> IF embedded THEN Embedding(TextOf(page))
                                                ELSE NoVector,
                                     elements |-> Buttons(cfg.site, page)]
                                G == g_store_to_neo4j(Graph, page_data, links, now)
                                new_urls == g_new_urls(links, visited)
                                cost == Faults(current_url, r.log) + (IF embedded THEN 0 ELSE 1)
                            IN  /\ faults + cost <= MaxFaults
                                /\ faults' = faults + cost
                                /\ nodes' = G.nodes
                                /\ rels' = G.rels
                                /\ url_depths' = g_new_depths(url_depths, new_urls,
                                                              current_depth + 1)
                                /\ url_queue' = g_update_queue(queue, new_urls, visited,
                                                               failed_urls, base_domain)
                                /\ pages_crawled' = pages_crawled + 1
                                /\ fetched' = Fetched(current_url, r.log, "page", embedded)
                                /\ UNCHANGED <<failed_urls, pc>>
    /\ UNCHANGED <<now, upserted, manager, cfg, env, pages_failed, queryVars>>

\* the end of crawl(): the loop condition fails, the statistics are computed
GCrawlDone ==
    /\ pc = "crawl"
    /\ manager = "graph"
    /\ ~loop_condition(url_queue, pages_crawled, cfg.max_pages)
    /\ pc' = "done"
    /\ pages_failed' = Cardinality(DOMAIN failed_urls)
    /\ UNCHANGED <<nodes, rels, now, upserted, manager, cfg, env, url_queue, visited_urls,
                   failed_urls, url_depths, pages_crawled, faults, fetched, queryVars>>

(***************************************************************************)
(* backend/graph_redo/web_crawler.py                                       *)
(***************************************************************************)
\* str.lower() of a whole URL
LowerUrl(u) == Url(Lower(u.scheme), Lower(u.host), LowerPath(u.path), Lower(u.frag))

\* WebCrawler.extract_domain
extract_domain(url) == Lower(urlparse(url).host)

\* the URL as one token sequence, for the substring tests (`pattern in url`)
Tokens(u) ==
    <<u.scheme, "://", u.host>> \o u.path \o (IF u.frag = "" THEN <<>> ELSE <<"#", u.frag>>)

Contains(s, sub) ==
    \E i \in 0..(Len(s) - Len(sub)) : SubSeq(s, i + 1, i + Len(sub)) = sub

\* a mutant of is_blacklisted: no pattern ever matches
never_blacklisted(url, blacklist) == FALSE

\* WebCrawler.is_blacklisted (the patterns of the model hold no regex character)
is_blacklisted(url, blacklist) ==
    /\ blacklist # <<>>
    /\ \E k \in DOMAIN blacklist :
        LET pattern_lower == LowerPath(blacklist[k])
        IN  \/ StartsWith(urlparse(LowerUrl(url)).path, pattern_lower)
            \/ Contains(Tokens(LowerUrl(url)), pattern_lower)

\* WebCrawler.is_valid_url
is_valid_url(url) ==
    /\ urlparse(url).scheme # "" /\ urlparse(url).host # ""
    /\ urlparse(url).scheme \in {"http", "https"}

skip_patterns == {"#", "javascript", "mailto", "logo.png", "report.pdf"}

\* WebCrawler.should_crawl
should_crawl(url, current_depth, max_depth, visited, failed, domain, blacklist) ==
    /\ ~(current_depth >= max_depth)
    /\ ~(url \in visited \/ url \in failed)
    /\ is_valid_url(url)
    /\ extract_domain(url) = domain
    /\ ~is_blacklisted(url, blacklist)
    /\ \A pattern \in skip_patterns : ~Contains(Tokens(LowerUrl(url)), <<pattern>>)

\* WebCrawler.normalize_url
normalize_url(url) ==
    LET parsed == urlparse(LowerUrl(url))
    IN  urlunparse(parsed.scheme, parsed.host, RStrip(parsed.path), parsed.params, "")

\* WebCrawler.extract_links: the anchors as urljoin resolved them, untouched
RECURSIVE extract_links(_, _)
extract_links(anchors, base_url) ==
    IF anchors = <<>> THEN <<>>
    ELSE <<[url |-> Head(anchors),
            is_external |-> extract_domain(Head(anchors)) # extract_domain(base_url)]>>
         \o extract_links(Tail(anchors), base_url)

\* WebCrawler.update_queue
\* update_queue without its three membership tests
RECURSIVE update_queue_unchecked(_, _, _, _, _)
update_queue_unchecked(queue, new_urls, current_depth, visited, failed) ==
    IF new_urls = <<>> THEN queue
    ELSE update_queue_unchecked(Append(queue, [url |-> normalize_url(Head(new_urls)),
                                               depth |-> current_depth + 1]),
                                Tail(new_urls), current_depth, visited, failed)

RECURSIVE update_queue(_, _, _, _, _)
update_queue(queue, new_urls, current_depth, visited, failed) ==
    IF new_urls = <<>> THEN queue
    ELSE LET normalized_url == normalize_url(Head(new_urls))
             q == IF /\ normalized_url \notin visited
                     /\ normalized_url \notin failed
                     /\ normalized_url \notin QueueUrls(queue)
                  THEN Append(queue, [url |-> normalized_url,
                                      depth |-> current_depth + 1])
                  ELSE queue
         IN  update_queue(q, Tail(new_urls), current_depth, visited, failed)

\* SET on the node a MERGE / MATCH bound
SetNode(G, label, key, f, v) ==
    [G EXCEPT !.nodes[TheNode(G, label, key)] = [@ EXCEPT ![f] = v]]

\* the statements store_to_neo4j runs for link number i of a page
store_link(G, page_url, i, link, t) ==
    LET link_id == [page |-> page_url, link |-> i]
        G1 == MergeNode(G, "LinkElement", link_id)
        le == TheNode(G1, "LinkElement", link_id)
        G2 == [G1 EXCEPT !.nodes[le] =
                 [@ EXCEPT !.first = IF @ = Null THEN t ELSE @, !.last = t]]
        G3 == MergeRel(G2, TheNode(G2, "Page", page_url), le, "HAS_LINK_ELEMENT")
    IN  IF link.is_external
        THEN LET existed == MatchNode(G3, "ExternalLink", link.url) # {}
                 G4 == MergeNode(G3, "ExternalLink", link.url)
                 to == TheNode(G4, "ExternalLink", link.url)
                 G5 == IF existed THEN G4 ELSE [G4 EXCEPT !.nodes[to].first = t]
                 G6 == MergeRel(G5, le, to, "TARGETS")
             IN  MergeRel(G6, TheNode(G6, "Page", page_url), to, "LINKS_TO_EXTERNAL")
        ELSE LET G4 == MergeNode(G3, "Page", link.url)
                 to == TheNode(G4, "Page", link.url)
                 G5 == MergeRel(G4, le, to, "TARGETS")
             IN  MergeRel(G5, TheNode(G5, "Page", page_url), to, "LINKS_TO")

RECURSIVE store_links(_, _, _, _, _)
store_links(G, page_url, i, links, t) ==
    IF links = <<>> THEN G
    ELSE store_links(store_link(G, page_url, i, Head(links), t), page_url, i + 1,
                     Tail(links), t)

\* WebCrawler.store_to_neo4j
store_to_neo4j(G, page_data, links_data, t) ==
    LET G1 == MergeNode(G, "Page", page_data.url)
        p == TheNode(G1, "Page", page_data.url)
        G2 == [G1 EXCEPT !.nodes[p] =
                 [@ EXCEPT !.content = page_data.content,
                           !.vector = page_data.vector,
                           !.last = t]]
    IN  store_links(G2, page_data.url, 0, links_data, t)

\* driver.current_url: the browser's address bar after loading the URL
current_url_of(url) ==
    Url(Lower(url.scheme), Lower(url.host),
        IF url.path = <<>> THEN <<"/">> ELSE url.path, url.frag)

RECURSIVE internal_links(_)
internal_links(links) ==
    IF links = <<>> THEN <<>>
    ELSE (IF ~Head(links).is_external THEN <<Head(links).url>> ELSE <<>>)
         \o internal_links(Tail(links))

SetMap(S) == [u \in S |-> "failed"]

\* WebCrawler.__init__
RInit(base_url) ==
    /\ url_queue = <<[url |-> base_url, depth |-> 0]>>
    /\ url_depths = NoMap

SeleniumOutcomes == {"ok", "timeout", "webdriver"}

\* one iteration of the while loop of WebCrawler.crawl
RCrawlStep ==
    /\ pc = "crawl"
    /\ manager = "graph_redo"
    /\ loop_condition(url_queue, pages_crawled, cfg.max_pages)
    /\ LET current_url == Head(url_queue).url
           current_depth == Head(url_queue).depth
           queue == Tail(url_queue)
       IN  IF ~should_crawl(current_url, current_depth, cfg.max_depth, visited_urls,
                            DOMAIN failed_urls, extract_domain(cfg.base_url),
                            cfg.blacklist)
           THEN /\ url_queue' = queue
                /\ UNCHANGED <<nodes, rels, visited_urls, failed_urls, pages_crawled,
                               pages_failed, faults, fetched>>
           ELSE \E outcome \in SeleniumOutcomes, embedded \in BOOLEAN :
                LET visited == visited_urls \cup {current_url}
                    cost == Faults(current_url, <<outcome>>)
                            + (IF embedded THEN 0 ELSE 1)
                    page == PageOf(current_url)
                    url == current_url_of(current_url)
                    \* parse_page catches what extract_links raises and
                    \* returns the empty parse
                    parse_error == urljoin_raises(Anchors(cfg.site, page))
                    links == IF parse_error THEN <<>>
                             ELSE extract_links(Anchors(cfg.site, page), url)
                    content_text == IF parse_error THEN "" ELSE TextOf(page)
                    page_data == [url |-> url, content |-> content_text,
                                  vector |-> IF embedded /\ content_text # ""
                                             THEN Embedding(content_text)
                                             ELSE NoVector]
                    \* store_to_neo4j catches what the session raises when
                    \* the database does not answer: nothing is written
                    G == IF env.db_up THEN store_to_neo4j(Graph, page_data, links, now)
                         ELSE Graph
                IN  /\ faults + cost <= MaxFaults
                    /\ faults' = faults + cost
                    /\ visited_urls' = visited
                    /\ IF outcome # "ok"
                       THEN /\ embedded
                            /\ failed_urls' = SetMap(DOMAIN failed_urls \cup {current_url})
                            /\ pages_failed' = pages_failed + 1
                            /\ url_queue' = queue
                            /\ fetched' = Fetched(current_url, <<outcome>>, "error", FALSE)
                            /\ UNCHANGED <<nodes, rels, pages_crawled>>
                       ELSE /\ parse_error => embedded
                            /\ nodes' = G.nodes
                            /\ rels' = G.rels
                            /\ pages_crawled' = pages_crawled + 1
                            /\ url_queue' = update_queue(queue, internal_links(links),
                                                         current_depth, visited,
                                                         DOMAIN failed_urls)
                            /\ fetched' = Fetched(current_url, <<outcome>>,
                                                  IF parse_error THEN "parse-error"
                                                  ELSE "page",
                                                  embedded /\ content_text # "")
                            /\ UNCHANGED <<failed_urls, pages_failed>>
    /\ UNCHANGED <<now, upserted, manager, cfg, env, url_depths, pc, queryVars>>

\* the end of crawl(): the loop condition fails
RCrawlDone ==
    /\ pc = "crawl"
    /\ manager = "graph_redo"
    /\ ~loop_condition(url_queue, pages_crawled, cfg.max_pages)
    /\ pc' = "done"
    /\ UNCHANGED <<nodes, rels, now, upserted, manager, cfg, env, url_queue, visited_urls,
                   failed_urls, url_depths, pages_crawled, pages_failed, faults,
                   fetched, queryVars>>

(***************************************************************************)
(* A crawl: one crawler of either package, constructed on an empty graph   *)
(* and run to the end of crawl().                                          *)
(***************************************************************************)
Seeds == {HomeUrl, Http("site", <<>>, "")}
Blacklists == {<<>>, <<<<"/", "admin">>>>}
\* crawl(max_pages, max_depth)
Limits == {<<10, 5>>, <<1, 5>>, <<2, 5>>, <<10, 0>>, <<10, 1>>}

CrawlInit ==
    /\ nodes = <<>>
    /\ rels = <<>>
    /\ now = 0
    /\ upserted = NoMap
    /\ manager \in {"graph", "graph_redo"}
    /\ \E base_url \in Seeds, limits \in Limits, site \in Sites,
          blacklist \in Blacklists :
        /\ manager = "graph" => blacklist = <<>>
        /\ cfg = [base_url |-> base_url, blacklist |-> blacklist,
                  max_pages |-> limits[1], max_depth |-> limits[2], site |-> site]
        /\ IF manager = "graph" THEN GInit(base_url) ELSE RInit(base_url)
    /\ visited_urls = {}
    /\ failed_urls = NoMap
    /\ pages_crawled = 0
    /\ pages_failed = 0
    /\ pc = "crawl"
    /\ faults = 0
    /\ fetched = <<>>
    /\ env = Env(TRUE, TRUE, TRUE, "db_up")
    /\ QueryIdle

\* Ctrl-C between two iterations of the loop: backend/graph_redo's crawl()
\* catches it and returns the statistics from its finally block,
\* backend/graph's crawl() has no handler
Interrupt ==
    /\ pc = "crawl"
    /\ pc' = IF manager = "graph_redo" THEN "interrupted" ELSE "killed"
    /\ UNCHANGED <<nodes, rels, now, upserted, manager, cfg, env, url_queue, visited_urls,
                   failed_urls, url_depths, pages_crawled, pages_failed, faults,
                   fetched, queryVars>>

CrawlNext == GCrawlStep \/ GCrawlDone \/ RCrawlStep \/ RCrawlDone \/ Interrupt

SpecCrawl == CrawlInit /\ [][CrawlNext]_vars

\* one iteration of the crawl loop brings the crawl nearer its end: it
\* visits a URL not visited before, or it visits nothing and the queue is
\* one entry shorter
NearerTheEnd ==
    \/ visited_urls \subseteq visited_urls' /\ visited_urls' # visited_urls
    \/ visited_urls' = visited_urls /\ Len(url_queue') < Len(url_queue)

C33_ExternalLinksAreOffDomain ==
    \A n \in DOMAIN nodes :
        nodes[n].label = "ExternalLink"
        => Lower(urlparse(nodes[n].key).host) # Lower(urlparse(cfg.base_url).host)

\* the normalized form of a fetched URL, by the crawler that fetched it
FetchedAs(i) ==
    IF manager = "graph" THEN _normalize_url(fetched[i].url)
    ELSE normalize_url(fetched[i].url)

\* C39: in one crawl session fetch_page is invoked at most once for each
\* normalized URL, the seed included.
C39_FetchedAtMostOnce ==
    \A i, j \in DOMAIN fetched : FetchedAs(i) = FetchedAs(j) => i = j

\* the depth recorded for the queue entry at position i
QueuedDepth(queue, depths, i) ==
    IF manager = "graph"
    THEN (IF queue[i].url \in DOMAIN depths THEN depths[queue[i].url] ELSE 0)
    ELSE queue[i].depth

\* C40: the depth recorded for a queued URL is the one of its first
\* discovery: while the URL waits in the queue no step changes it, also when
\* a deeper page links to the URL again.
C40_QueuedDepthIsKept ==
    [][\A i \in DOMAIN url_queue, j \in DOMAIN url_queue' :
        url_queue[i].url = url_queue'[j].url
        => QueuedDepth(url_queue', url_depths', j) = QueuedDepth(url_queue, url_depths, i)]_vars

(***************************************************************************)
(* The pipeline from its start: backend/graph_redo/main.py loads the       *)
(* configuration, tests the connections and constructs the crawler;        *)
(* backend/graph's crawler is constructed by its caller.  The database     *)
(* comes and goes while the pipeline initializes.                          *)
(***************************************************************************)
PipelineInit ==
    /\ nodes = <<>>
    /\ rels = <<>>
    /\ now = 0
    /\ upserted = NoMap
    /\ manager \in {"graph", "graph_redo"}
    /\ \E site \in {"shop", "backoffice"} :
        cfg = [base_url |-> HomeUrl, blacklist |-> <<>>, max_pages |-> 2,
               max_depth |-> 5, site |-> site]
    /\ url_queue = <<>>
    /\ visited_urls = {}
    /\ failed_urls = NoMap
    /\ url_depths = NoMap
    /\ pages_crawled = 0
    /\ pages_failed = 0
    /\ pc = "main"
    /\ faults = 0
    /\ fetched = <<>>
    /\ env \in {Env(db_up, neo4j_password, openai_api_key, "no") :
                    db_up \in BOOLEAN, neo4j_password \in BOOLEAN,
                    openai_api_key \in BOOLEAN}
    /\ QueryIdle

\* the graph database stops or starts answering
DatabaseChanges ==
    /\ pc \in {"main", "configured", "tested"}
    /\ env' = [env EXCEPT !.db_up = ~@]
    /\ UNCHANGED <<storeVars, manager, cfg, url_queue, visited_urls, failed_urls,
                   url_depths, pages_crawled, pages_failed, pc, faults, fetched,
                   queryVars>>

\* main.py load_configuration: NEO4J_PASSWORD and OPENAI_API_KEY are required
LoadConfiguration ==
    /\ pc = "main"
    /\ manager = "graph_redo"
    /\ pc' = IF ~env.neo4j_password \/ ~env.openai_api_key THEN "aborted"
             ELSE "configured"
    /\ UNCHANGED <<storeVars, manager, cfg, url_queue, visited_urls, failed_urls,
                   url_depths, pages_crawled, pages_failed, faults, fetched, env,
                   queryVars>>

\* main.py test_neo4j_connection and test_openai_connection: main() exits
\* when one of them fails
TestConnections ==
    /\ pc = "configured"
    /\ pc' = IF env.db_up /\ env.openai_api_key THEN "tested" ELSE "aborted"
    /\ UNCHANGED <<storeVars, manager, cfg, url_queue, visited_urls, failed_urls,
                   url_depths, pages_crawled, pages_failed, faults, fetched, env,
                   queryVars>>

\* main.py crawl_website: WebCrawler.__init__ of backend/graph_redo, whose
\* GraphDatabase.driver() opens no connection, and then crawl() is entered
RConstruct ==
    /\ pc = "tested"
    /\ url_queue' = <<[url |-> cfg.base_url, depth |-> 0]>>
    /\ url_depths' = NoMap
    /\ visited_urls' = {}
    /\ failed_urls' = NoMap
    /\ pages_crawled' = 0
    /\ pc' = "crawl"
    /\ env' = [env EXCEPT !.constructed = IF env.db_up THEN "db_up" ELSE "db_down"]
    /\ UNCHANGED <<storeVars, manager, cfg, pages_failed, faults, fetched, queryVars>>

\* WebCrawler.__init__ of backend/graph: Neo4jManager.__init__ verifies the
\* connection and ContentProcessor.__init__ builds the OpenAI client, and
\* what they raise leaves the constructor; then crawl() is entered
GConstruct ==
    /\ pc = "main"
    /\ manager = "graph"
    /\ env' = [env EXCEPT !.constructed = IF env.db_up THEN "db_up" ELSE "db_down"]
    /\ IF env.db_up /\ env.neo4j_password /\ env.openai_api_key
       THEN /\ url_queue' = <<[url |-> _normalize_url(cfg.base_url), depth |-> Null]>>
            /\ url_depths' = [u \in {_normalize_url(cfg.base_url)} |-> 0]
            /\ pc' = "crawl"
       ELSE /\ pc' = "aborted"
            /\ UNCHANGED <<url_queue, url_depths>>
    /\ UNCHANGED <<storeVars, manager, cfg, visited_urls, failed_urls, pages_crawled,
                   pages_failed, faults, fetched, queryVars>>

PipelineNext ==
    \/ DatabaseChanges \/ LoadConfiguration \/ TestConnections
    \/ RConstruct \/ GConstruct
    \/ GCrawlStep \/ GCrawlDone \/ RCrawlStep \/ RCrawlDone \/ Interrupt

SpecPipeline == PipelineInit /\ [][PipelineNext]_vars

\* C30: when the graph database does not answer at the time the crawler is
\* constructed, or NEO4J_PASSWORD or OPENAI_API_KEY is not set, the pipeline
\* stops while it initializes: no URL is fetched, so that no page is handed
\* to the store, and nothing is written to the graph.
C30_BadInitializationAborts ==
    (env.constructed = "db_down" \/ ~env.neo4j_password \/ ~env.openai_api_key)
    => /\ fetched = <<>>
       /\ nodes = <<>>


(***************************************************************************)
(* Claims about a crawl.                                                   *)
(***************************************************************************)
\* C3: update_queue never appends a URL whose normalized form is already
\* visited, failed or queued: no queue entry has the normalized form of a
\* visited or failed URL or of another queue entry, the seed's included
\* (the normalized form is the one the package's own normalizer gives).
C3_NoKnownUrlInQueue ==
    LET norm(u) == IF manager = "graph" THEN _normalize_url(u) ELSE normalize_url(u)
        known == visited_urls \cup DOMAIN failed_urls
    IN  \A i \in DOMAIN url_queue :
            /\ \A v \in known : norm(v) # norm(url_queue[i].url)
            /\ \A j \in DOMAIN url_queue :
                 j # i => norm(url_queue[j].url) # norm(url_queue[i].url)

\* C4: a crawl never processes more than max_pages pages: pages_crawled stays
\* at or below max_pages, and every URL handed to fetch_page was dequeued
\* while pages_crawled was still below max_pages.
C4_NeverMoreThanMaxPages ==
    /\ pages_crawled <= cfg.max_pages
    /\ \A i \in DOMAIN fetched : fetched[i].crawled < cfg.max_pages

\* the crawl stopped at max_pages with URLs left in the queue, after a failed
\* fetch in between
C4_Witness ==
    /\ pc = "done"
    /\ pages_crawled = cfg.max_pages
    /\ url_queue # <<>>
    /\ \E i \in DOMAIN fetched : fetched[i].returned # "page"

\* C5: with /admin on the blacklist, the graph never holds a Page node whose
\* path starts with /admin.
C5_NoBlacklistedPageNode ==
    (\E k \in DOMAIN cfg.blacklist : cfg.blacklist[k] = <<"/", "admin">>)
    => \A i \in DOMAIN nodes :
          nodes[i].label = "Page"
          => ~StartsWith(urlparse(nodes[i].key).path, <<"/", "admin">>)

\* C9: a URL answered 503, 503, 200 (with a page whose links parse) is
\* counted in pages_crawled, is not in failed_urls and has exactly one Page
\* node (backend/graph).
C9_RetriedFetchIsCrawled ==
    \A i \in DOMAIN fetched :
        fetched[i].log = <<"503", "503", "200">> /\ fetched[i].returned # "raised"
        => /\ fetched[i].returned = "page"
           /\ pages_crawled > fetched[i].crawled
           /\ fetched[i].url \notin DOMAIN failed_urls
           /\ Cardinality(PageNodes(Graph, _normalize_url(fetched[i].url))) = 1

\* a crawl that ended after a 503, 503, 200 fetch of the products page
C9_Witness ==
    /\ pc = "done"
    /\ \E i \in DOMAIN fetched :
        /\ fetched[i].log = <<"503", "503", "200">>
        /\ fetched[i].url = ProductsUrl
        /\ ProductsUrl \in visited_urls

\* C10: crawling the 3-page shop from home with max_pages = 10, max_depth = 5,
\* every fetch answered at once, ends with 3 Page nodes, 2 LINKS_TO edges and
\* 1 ExternalLink node whose reference_count is 1.
C10_ThreePageSite ==
    (/\ pc = "done"
     /\ cfg.site = "shop" /\ cfg.base_url = HomeUrl
     /\ cfg.max_pages = 10 /\ cfg.max_depth = 5
     /\ \A i \in DOMAIN fetched : fetched[i].log \in {<<"200">>, <<"ok">>})
    => /\ Cardinality({i \in DOMAIN nodes : nodes[i].label = "Page"}) = 3
       /\ Cardinality({i \in DOMAIN rels : rels[i].type = "LINKS_TO"}) = 2
       /\ Cardinality({i \in DOMAIN nodes : nodes[i].label = "ExternalLink"}) = 1
       /\ \A i \in DOMAIN nodes :
            nodes[i].label = "ExternalLink" => nodes[i].refcount = 1

\* the depth crawl() has recorded for the URL at the head of the queue
HeadDepth ==
    IF manager = "graph"
    THEN (IF Head(url_queue).url \in DOMAIN url_depths
          THEN url_depths[Head(url_queue).url] ELSE 0)
    ELSE Head(url_queue).depth

\* an iteration of the crawl loop is about to dequeue the head of the queue
Dequeues == pc = "crawl" /\ loop_condition(url_queue, pages_crawled, cfg.max_pages)

\* C12: a dequeued URL is fetched only if its recorded depth does not exceed
\* max_depth, and a URL that nothing else rules out (not visited, not failed,
\* same origin, not blacklisted, a document) is dropped only when its depth
\* exceeds max_depth: at depth exactly max_depth it is fetched, so the seed is
\* fetched when max_depth is 0.
C12_DepthAtMostMaxIsFetched ==
    [][Dequeues =>
        LET url == Head(url_queue).url
            eligible ==
                IF manager = "graph" THEN url \notin visited_urls
                ELSE should_crawl(url, 0, 1, visited_urls, DOMAIN failed_urls,
                                  extract_domain(cfg.base_url), cfg.blacklist)
        IN  /\ fetched' # fetched => HeadDepth <= cfg.max_depth
            /\ eligible /\ HeadDepth <= cfg.max_depth => fetched' # fetched]_vars

TransientFailures == {"501", "503", "timeout"}

\* the requests fetch_page may make for one URL (graph_redo's makes one)
Attempts == IF manager = "graph" THEN max_retries ELSE 1

\* C14: fetch_page retries every transient failure: a timeout or 5xx answer
\* to a request that is not the last attempt is followed by another request
\* for the URL and does not put the URL in the failed set.
C14_TransientFailureIsRetried ==
    \A i \in DOMAIN fetched : \A k \in DOMAIN fetched[i].log :
        fetched[i].log[k] \in TransientFailures /\ k < Attempts
        => /\ k < Len(fetched[i].log)
           /\ ~(k = Len(fetched[i].log) /\ fetched[i].url \in DOMAIN failed_urls)

\* C15: fetch_page makes at most max_retries requests for a URL; when every
\* one of them is a transient failure the URL is in the failed set with its
\* last error and no page comes back (backend/graph).
C15_ExhaustedRetriesFail ==
    manager = "graph"
    => \A i \in DOMAIN fetched :
        LET log == fetched[i].log
        IN  /\ Len(log) <= max_retries
            /\ (Len(log) = max_retries /\ \A k \in DOMAIN log : log[k] \in TransientFailures)
               => /\ fetched[i].returned = "none"
                  /\ fetched[i].url \in DOMAIN failed_urls
                  /\ failed_urls[fetched[i].url] = log[Len(log)]

\* C16: a request answered 404 or another 4xx (rate limiting aside) is the
\* last one fetch_page makes for the URL: the URL is in the failed set, no
\* page came back, and the URL is never requested again (backend/graph).
C16_ClientErrorFailsAtOnce ==
    manager = "graph"
    => \A i \in DOMAIN fetched : \A k \in DOMAIN fetched[i].log :
        fetched[i].log[k] \in {"404", "403"}
        => /\ k = Len(fetched[i].log)
           /\ fetched[i].returned = "none"
           /\ fetched[i].url \in DOMAIN failed_urls
           /\ \A j \in DOMAIN fetched :
                j # i => _normalize_url(fetched[j].url) # _normalize_url(fetched[i].url)

\* a crawl run to the end: a URL was answered 404 once, is in failed_urls,
\* and another page was fetched after it
C16_Witness ==
    /\ pc = "done" /\ manager = "graph"
    /\ \E i \in DOMAIN fetched :
        /\ fetched[i].log = <<"404">>
        /\ fetched[i].url \in DOMAIN failed_urls
        /\ \E j \in DOMAIN fetched : j > i /\ fetched[j].returned = "page"

\* the fetches that ended on a response whose content type is not HTML
NonHtml == {i \in DOMAIN fetched : fetched[i].log[Len(fetched[i].log)] = "200-not-html"}

HasPageFailure ==
    faults > 0 \/ \E i \in DOMAIN fetched : fetched[i].returned # "page"

\* C18: no page's failure ends the crawl early: after a fetch, a parse, an
\* embedding call or a discovered URL has failed on a page, the crawl loop
\* is left (by its end or by an exception, a KeyboardInterrupt aside) only
\* when the queue is empty or max_pages is reached.
C18_FailureDoesNotEndCrawl ==
    HasPageFailure /\ pc \in {"done", "raised"}
    => ~loop_condition(url_queue, pages_crawled, cfg.max_pages)

\* the fetches whose page made parse_page hit an internal error
ParseErrors == {i \in DOMAIN fetched : fetched[i].returned \in {"parse-error", "raised"}}

\* C38: an internal parse error of parse_page raises nothing: the page is
\* handed on as an empty parse, its URL is not marked failed, and the crawl
\* loop goes on until the queue is empty or max_pages is reached.
C38_ParseErrorIsContained ==
    \A i \in ParseErrors :
        /\ fetched[i].returned = "parse-error"
        /\ fetched[i].url \notin DOMAIN failed_urls
        /\ pc # "raised"
        /\ pc = "done" => ~loop_condition(url_queue, pages_crawled, cfg.max_pages)

\* C19: crawl() always returns its statistics: whenever a crawl is over, by
\* the end of the loop, by a KeyboardInterrupt or by an exception raised in
\* the loop, the caller has the statistics.
C19_StatisticsAlwaysReturned ==
    pc \notin {"idle", "crawl"} => pc \in {"done", "interrupted"}

\* the fetches whose page came back and whose embedding call gave nothing
NotEmbedded ==
    {i \in DOMAIN fetched : fetched[i].returned = "page" /\ ~fetched[i].embedded}

\* C23: a page whose embedding call fails or gives nothing is still upserted
\* with its other fields and counted as crawled, and the failure does not
\* leave the crawl loop as an exception (backend/graph).
C23_PageStoredWithoutEmbedding ==
    manager = "graph"
    => \A i \in NotEmbedded :
        LET url == _normalize_url(fetched[i].url)
            status == fetched[i].log[Len(fetched[i].log)]
        IN  /\ Cardinality(PageNodes(Graph, url)) = 1
            /\ \A n \in PageNodes(Graph, url) :
                /\ nodes[n].content = TextOf(BodyPage(fetched[i].url, status))
                /\ nodes[n].last # Null
                /\ nodes[n].vector = NoVector
            /\ pages_crawled > fetched[i].crawled
            /\ i = Len(fetched) => pc # "raised"

\* the shop crawled to the end: the embedding call failed for the products
\* page, all three pages are counted
C23_Witness ==
    /\ pc = "done" /\ manager = "graph" /\ cfg.site = "shop"
    /\ \E i \in NotEmbedded : fetched[i].url = ProductsUrl
    /\ pages_crawled = 3

(***************************************************************************)
(* Shortest path: backend/graph_redo/neo4j_manager.py find_shortest_path   *)
(* and backend/ai/neo4j_processor.py.                                      *)
(***************************************************************************)
EmptyUrl == Url("", "", <<>>, "")

\* (m)-[r]->(n): the pattern with an arrow, which follows the direction
Adjacent_directed(G, m, n, types) ==
    \E i \in DOMAIN G.rels :
        G.rels[i].type \in types /\ G.rels[i].from = m /\ G.rels[i].to = n

\* (m)-[r]-(n) with r of one of the types, in either direction
Adjacent(G, m, n, types) ==
    \E i \in DOMAIN G.rels :
        /\ G.rels[i].type \in types
        /\ \/ G.rels[i].from = m /\ G.rels[i].to = n
           \/ G.rels[i].from = n /\ G.rels[i].to = m

\* the nodes within k hops of the set S
RECURSIVE Ball(_, _, _, _)
Ball(G, S, k, types) ==
    LET next == S \cup {n \in DOMAIN G.nodes : \E m \in S : Adjacent(G, m, n, types)}
    IN  IF k <= 0 \/ next = S THEN S ELSE Ball(G, next, k - 1, types)

\* shortestPath((start)-[*1..max_depth]-(end)) for start # end: the paths of
\* the least number of hops, none when the end is not within max_depth hops
ShortestPaths(G, start, end, max_depth, types) ==
    LET hops == {d \in 1..max_depth : d < Len(G.nodes)
                                      /\ end \in Ball(G, {start}, d, types)}
    IN  IF start = end \/ hops = {} THEN {}
        ELSE LET d == CHOOSE h \in hops : \A g \in hops : h <= g
             IN  {path \in [1..(d + 1) -> DOMAIN G.nodes] :
                    /\ path[1] = start /\ path[d + 1] = end
                    /\ \A i \in 1..d : Adjacent(G, path[i], path[i + 1], types)}

RelTypes(G) == {G.rels[i].type : i \in DOMAIN G.rels}

\* relationships(path): one relationship per hop
PathRels(G, path, types) ==
    [i \in 1..(Len(path) - 1) |->
        CHOOSE r \in DOMAIN G.rels :
            /\ G.rels[r].type \in types
            /\ \/ G.rels[r].from = path[i] /\ G.rels[r].to = path[i + 1]
               \/ G.rels[r].from = path[i + 1] /\ G.rels[r].to = path[i]]

\* the rows the path query of find_shortest_path can return (<<>>: no row)
StorePaths(G, start_url, end_url, max_depth) ==
    IF \/ MatchNode(G, "Page", start_url) = {} \/ MatchNode(G, "Page", end_url) = {}
       \/ max_depth < 1 \/ max_depth > 20
    THEN {<<>>}
    ELSE LET paths == ShortestPaths(G, TheNode(G, "Page", start_url),
                                    TheNode(G, "Page", end_url), max_depth, RelTypes(G))
         IN  IF paths = {} THEN {<<>>} ELSE paths

PathResult(raised, found, path_nodes, path_rels, error) ==
    [raised |-> raised, path_found |-> found, path_length |-> Len(path_rels),
     nodes |-> path_nodes, relationships |-> path_rels, error |-> error]

\* Neo4jManager.find_shortest_path; `path` is the row the path query returned
find_shortest_path(G, start_url, end_url, max_depth, path) ==
    IF start_url = EmptyUrl \/ end_url = EmptyUrl
    THEN PathResult(TRUE, FALSE, <<>>, <<>>, "ValueError")
    ELSE IF start_url = end_url
    THEN IF MatchNode(G, "Page", start_url) # {}
         THEN PathResult(FALSE, TRUE, <<TheNode(G, "Page", start_url)>>, <<>>, "")
         ELSE PathResult(FALSE, FALSE, <<>>, <<>>, "Start node not found")
    ELSE IF max_depth < 1 \/ max_depth > 20
    THEN PathResult(TRUE, FALSE, <<>>, <<>>, "ValueError")
    ELSE IF path = <<>>
    THEN LET start_exists == MatchNode(G, "Page", start_url) # {}
             end_exists == MatchNode(G, "Page", end_url) # {}
         IN  PathResult(FALSE, FALSE, <<>>, <<>>,
                CASE ~start_exists /\ ~end_exists ->
                        "Start node not found; End node not found"
                  [] ~start_exists -> "Start node not found"
                  [] ~end_exists -> "End node not found"
                  [] OTHER -> "No path exists between the specified nodes")
    ELSE PathResult(FALSE, TRUE, path, PathRels(G, path, RelTypes(G)), "")

\* what neo4j_processor hands on: None, or the list of path nodes
None == [none |-> TRUE, nodes |-> <<>>]
Some(path_nodes) == [none |-> FALSE, nodes |-> path_nodes]

fallback_types == {"HAS_ELEMENT", "LINKS_TO", "LINKS_TO_EXTERNAL", "NAVIGATES_TO"}

\* the nodes MATCH (n) WHERE (n:Page AND n.url = id) OR (n:Element AND n.id = id) binds
PageOrElement(G, id) == MatchNode(G, "Page", id) \cup MatchNode(G, "Element", id)

\* the rows the query of _find_shortest_path_fallback can return (<<>>: none)
FallbackPaths(G, start_id, end_id, max_depth) ==
    LET paths == UNION {ShortestPaths(G, a, b, max_depth, fallback_types) :
                            a \in PageOrElement(G, start_id),
                            b \in PageOrElement(G, end_id)}
    IN  IF paths = {} THEN {<<>>} ELSE paths

\* neo4j_processor._find_shortest_path_fallback
_find_shortest_path_fallback(path) ==
    IF path # <<>> THEN Some(path) ELSE None

\* neo4j_processor.find_shortest_path
p_find_shortest_path(G, start_id, end_id, max_depth, path, fallback_path) ==
    LET result == find_shortest_path(G, start_id, end_id, max_depth, path)
    IN  IF result.raised THEN _find_shortest_path_fallback(fallback_path)
        ELSE IF result.path_found THEN Some(result.nodes)
        ELSE None

(***************************************************************************)
(* backend/ai/navigation_tool.py: the path of the processor as steps.      *)
(***************************************************************************)
\* 'url' in node: of the nodes the manager writes, pages and external links
\* carry a url property, elements carry an id only
HasUrl(G, n) == G.nodes[n].label \in {"Page", "ExternalLink"}

\* NavigationTool._determine_action without its first branch
_determine_action_no_start(has_url, step_index, total_steps) ==
    IF step_index = total_steps - 1 THEN "destination"
    ELSE IF has_url THEN "navigate"
    ELSE "click"

\* NavigationTool._determine_action; step_index counts from 0
_determine_action(has_url, step_index, total_steps) ==
    IF step_index = 0 THEN "start"
    ELSE IF step_index = total_steps - 1 THEN "destination"
    ELSE IF has_url THEN "navigate"
    ELSE "click"

NoSteps == [none |-> TRUE, steps |-> <<>>]

\* NavigationTool.get_navigation_path; path_nodes is what
\* neo4j_processor.find_shortest_path handed on
get_navigation_path(G, path_nodes) ==
    IF path_nodes.none \/ path_nodes.nodes = <<>> THEN NoSteps
    ELSE [none |-> FALSE,
          steps |-> [i \in 1..Len(path_nodes.nodes) |->
                        LET node == path_nodes.nodes[i]
                        IN  [step_number |-> (i - 1) + 1,
                             node_id |-> G.nodes[node].key,
                             node_type |-> IF HasUrl(G, node) THEN "Page" ELSE "Element",
                             action |-> _determine_action(HasUrl(G, node), i - 1,
                                                          Len(path_nodes.nodes))]]]

(***************************************************************************)
(* Similarity: backend/graph_redo/neo4j_manager.py find_similar_pages and  *)
(* backend/ai/semantic_search.py find_similar_nodes.  A cosine is kept     *)
(* exactly, as the dot product and the product of the squared magnitudes.  *)
(***************************************************************************)
RECURSIVE Dot(_, _)
Dot(a, b) == IF a = <<>> \/ b = <<>> THEN 0
             ELSE Head(a) * Head(b) + Dot(Tail(a), Tail(b))

\* dot / (|stored| * |query|), and 0.0 when a magnitude is 0
Cosine(query_vector, stored_vector) ==
    LET m == Dot(query_vector, query_vector) * Dot(stored_vector, stored_vector)
    IN  IF m = 0 THEN [dot |-> 0, mag2 |-> 1]
        ELSE [dot |-> Dot(query_vector, stored_vector), mag2 |-> m]

\* x >= y for two cosines
CosGeq(x, y) ==
    IF x.dot >= 0 /\ y.dot <= 0 THEN TRUE
    ELSE IF x.dot < 0 /\ y.dot >= 0 THEN FALSE
    ELSE IF x.dot >= 0 THEN x.dot * x.dot * y.mag2 >= y.dot * y.dot * x.mag2
    ELSE x.dot * x.dot * y.mag2 <= y.dot * y.dot * x.mag2

\* the greatest n in lo..hi with n - 1/2 <= 10^4 * sqrt(d2 / m)
RECURSIVE RoundSearch(_, _, _, _)
RoundSearch(lo, hi, d2, m) ==
    IF lo = hi THEN lo
    ELSE LET mid == (lo + hi + 1) \div 2
         IN  IF (2 * mid - 1) * (2 * mid - 1) * m <= 400000000 * d2
             THEN RoundSearch(mid, hi, d2, m)
             ELSE RoundSearch(lo, mid - 1, d2, m)

\* round(float(similarity_score), 4), in units of 0.0001
Round4(x) ==
    LET n == RoundSearch(0, 10000, x.dot * x.dot, x.mag2)
    IN  IF x.dot >= 0 THEN n ELSE 0 - n

\* ORDER BY similarity_score DESC
RECURSIVE InsertDesc(_, _)
InsertDesc(sorted, e) ==
    IF sorted = <<>> THEN <<e>>
    ELSE IF CosGeq(Head(sorted).score, e.score)
    THEN <<Head(sorted)>> \o InsertDesc(Tail(sorted), e)
    ELSE <<e>> \o sorted

\* a mutant of SortDesc: the rows as matched
Unsorted(rows) == rows

RECURSIVE SortDesc(_)
SortDesc(rows) ==
    IF rows = <<>> THEN <<>>
    ELSE InsertDesc(SortDesc(SubSeq(rows, 1, Len(rows) - 1)), rows[Len(rows)])

\* LIMIT n, seq[:n] for n >= 0
Take(rows, n) == SubSeq(rows, 1, IF n < Len(rows) THEN n ELSE Len(rows))

\* the rows of find_similar_pages' MATCH ... WHERE ... WITH, before ORDER BY
SimilarRows(G, vector, threshold) ==
    LET Candidate(n) == /\ n.label = "Page"
                        /\ n.vector # NoVector
                        /\ Len(n.vector) = Len(vector)
        matched == SelectSeq(G.nodes, Candidate)
        scored == [i \in DOMAIN matched |->
                     [url |-> matched[i].key, score |-> Cosine(vector, matched[i].vector)]]
        AtLeast(r) == /\ r.score.dot >= 0
                      /\ r.score.dot * r.score.dot * threshold.den * threshold.den
                            >= threshold.num * threshold.num * r.score.mag2
    IN  SelectSeq(scored, AtLeast)

\* the rest of find_similar_pages once the arguments passed: session.run
\* and the result list
run_similarity_query(G, vector, threshold, limit) ==
    LET rows == Take(SortDesc(SimilarRows(G, vector, threshold)), limit)
    IN  [raised |-> FALSE, queried |-> TRUE,
         pages |-> [i \in DOMAIN rows |->
                      [url |-> rows[i].url,
                       similarity_score |-> Round4(rows[i].score)]]]

\* a mutant of find_similar_pages: the magnitude of the vector is not tested
find_similar_pages_any_magnitude(G, vector, threshold, limit) ==
    IF \/ vector = <<>>
       \/ threshold.num < 0 \/ threshold.num > threshold.den
       \/ limit <= 0
    THEN [raised |-> TRUE, queried |-> FALSE, pages |-> <<>>]
    ELSE run_similarity_query(G, vector, threshold, limit)

\* Neo4jManager.find_similar_pages
find_similar_pages(G, vector, threshold, limit) ==
    IF \/ vector = <<>>
       \/ threshold.num < 0 \/ threshold.num > threshold.den
       \/ limit <= 0
       \/ Dot(vector, vector) = 0
    THEN [raised |-> TRUE, queried |-> FALSE, pages |-> <<>>]
    ELSE run_similarity_query(G, vector, threshold, limit)

node_query_limit == 1000

\* SemanticSearch._get_all_nodes_with_content
_get_all_nodes_with_content(G) ==
    LET WithContent(n) == n.label = "Page" /\ n.content # NoContent
    IN  Take(SelectSeq(G.nodes, WithContent), node_query_limit)

\* SentenceTransformer.encode
encode(text) ==
    CASE text = "c1" -> <<1, 0>>
      [] text = "c2" -> <<1, 1>>
      [] text = "c3" -> <<0, 1>>
      [] OTHER -> <<-1, 1>>

\* the loop of find_similar_nodes over the nodes: the cache after it
RECURSIVE CacheAfter(_, _)
CacheAfter(cache, content_nodes) ==
    IF content_nodes = <<>> THEN cache
    ELSE LET node == Head(content_nodes)
             c == IF node.key \in DOMAIN cache THEN cache
                  ELSE [id \in DOMAIN cache \cup {node.key} |->
                          IF id = node.key THEN encode(node.content) ELSE cache[id]]
         IN  CacheAfter(c, Tail(content_nodes))

\* seq[:limit]
Slice(rows, limit) ==
    IF limit >= 0 THEN Take(rows, limit)
    ELSE SubSeq(rows, 1, IF Len(rows) + limit > 0 THEN Len(rows) + limit ELSE 0)

\* SemanticSearch.find_similar_nodes: what it returns, every score it
\* computed, and the cache it leaves
find_similar_nodes(G, cache, search_query, limit) ==
    LET query_embedding == encode(search_query)
        content_nodes == _get_all_nodes_with_content(G)
        cache1 == CacheAfter(cache, content_nodes)
        similar_nodes == [i \in DOMAIN content_nodes |->
                            [node_id |-> content_nodes[i].key,
                             content |-> content_nodes[i].content,
                             score |-> Cosine(query_embedding,
                                              cache1[content_nodes[i].key])]]
        top_nodes == Slice(SortDesc(similar_nodes), limit)
    IN  [result |-> IF content_nodes = <<>> \/ top_nodes = <<>> THEN <<>> ELSE top_nodes,
         similar_nodes |-> similar_nodes,
         cache |-> cache1]

(***************************************************************************)
(* The query side on its own: a graph written through the graph_redo       *)
(* manager, queried in any order while pages are upserted again.           *)
(***************************************************************************)
NowhereUrl == Http("site", <<"/", "nowhere">>, "")

PageWrite(url, content, vector) ==
    [op |-> "page", data |-> [url |-> url, content |-> content, vector |-> vector]]
RelWrite(from_url, to_url, rel_type) ==
    [op |-> "rel", from |-> from_url, to |-> to_url, type |-> rel_type]

RECURSIVE Build(_, _)
Build(G, writes) ==
    IF writes = <<>> THEN G
    ELSE LET w == Head(writes)
         IN  Build(IF w.op = "page" THEN create_page_node(G, w.data, 0)
                   ELSE create_relationship(G, w.from, w.to, w.type, 0),
                   Tail(writes))

\* home -> products -> checkout, a button on products, an external link
ChainWrites ==
    <<PageWrite(HomeUrl, "c1", <<1, 0>>), PageWrite(ProductsUrl, "c2", <<1, 1>>),
      PageWrite(CheckoutUrl, "c3", <<0, 1>>),
      RelWrite(HomeUrl, ProductsUrl, "LINKS_TO"),
      RelWrite(ProductsUrl, CheckoutUrl, "LINKS_TO"),
      RelWrite(ProductsUrl, BuyButton, "HAS_ELEMENT"),
      RelWrite(HomeUrl, ExternalUrl, "LINKS_TO_EXTERNAL")>>

\* home -> products, checkout on its own; one page without a vector
SplitWrites ==
    <<PageWrite(HomeUrl, "c1", <<-1, 0>>), PageWrite(ProductsUrl, "c2", NoVector),
      PageWrite(CheckoutUrl, "c1", <<1, 1>>),
      RelWrite(HomeUrl, ProductsUrl, "LINKS_TO")>>

\* home and products joined by a SIMILAR_TO edge only; a 3-dimensional vector
SimilarWrites ==
    <<PageWrite(HomeUrl, "c3", <<0, 1>>), PageWrite(ProductsUrl, "c1", <<1, 1, 1>>),
      RelWrite(HomeUrl, ProductsUrl, "SIMILAR_TO")>>

\* home -> products, and checkout reached through the button of products
ButtonWrites ==
    <<PageWrite(HomeUrl, "c1", <<1, 0>>), PageWrite(ProductsUrl, "c2", <<1, 1>>),
      PageWrite(CheckoutUrl, "c3", <<0, 1>>),
      RelWrite(HomeUrl, ProductsUrl, "LINKS_TO"),
      RelWrite(ProductsUrl, BuyButton, "HAS_ELEMENT"),
      RelWrite(BuyButton, CheckoutUrl, "NAVIGATES_TO")>>

QueryGraphs ==
    {Build(EmptyGraph, ChainWrites), Build(EmptyGraph, SplitWrites),
     Build(EmptyGraph, SimilarWrites), Build(EmptyGraph, ButtonWrites),
     Build(EmptyGraph, <<>>)}

QueryIds == {HomeUrl, ProductsUrl, CheckoutUrl, NowhereUrl, BuyButton}
HopBounds == {0, 1, 2, 21}
QueryVectors == {<<1, 0>>, <<1, 1>>, <<-1, 1>>, <<0, 0>>, <<>>}
Thresholds == {[num |-> 0, den |-> 1], [num |-> 4, den |-> 5], [num |-> 3, den |-> 2]}
ResultLimits == {0, 1, 2, 5}
SearchQueries == {"c1", "c3", "hello"}

QueryInit ==
    /\ \E G \in QueryGraphs : nodes = G.nodes /\ rels = G.rels
    /\ now = 0
    /\ upserted = NoMap
    /\ manager = "graph_redo"
    /\ CrawlIdle
    /\ QueryIdle

\* a neo4j_processor.find_shortest_path call (which calls the manager's)
FindShortestPath ==
    /\ \E start_id \in QueryIds, end_id \in QueryIds, max_depth \in HopBounds :
       \E path \in StorePaths(Graph, start_id, end_id, max_depth),
          fallback_path \in FallbackPaths(Graph, start_id, end_id, max_depth) :
        answer' = [op |-> "find_shortest_path", graph |-> Graph,
                   start_id |-> start_id, end_id |-> end_id, max_depth |-> max_depth,
                   store |-> find_shortest_path(Graph, start_id, end_id, max_depth, path),
                   processor |-> p_find_shortest_path(Graph, start_id, end_id, max_depth,
                                                      path, fallback_path)]
    /\ UNCHANGED <<storeVars, manager, crawlVars, node_embeddings_cache, callers>>

\* the number of hops of what the processor hands on (Null: None)
HopsOf(handed) == IF handed.none THEN Null ELSE Len(handed.nodes) - 1

\* C36: for existing nodes a and b, find_shortest_path(a, b, k) finds a path
\* exactly when find_shortest_path(b, a, k) does, and of the same length,
\* in the manager and in the processor, whatever the direction of the
\* stored relationships.
C36_PathIgnoresDirection ==
    answer.op = "find_shortest_path"
    => LET G == answer.graph
           a == answer.start_id
           b == answer.end_id
           k == answer.max_depth
       IN  PageOrElement(G, a) # {} /\ PageOrElement(G, b) # {}
           => \A path \in StorePaths(G, b, a, k),
                 fallback_path \in FallbackPaths(G, b, a, k) :
                LET back == find_shortest_path(G, b, a, k, path)
                    p_back == p_find_shortest_path(G, b, a, k, path, fallback_path)
                IN  /\ back.raised = answer.store.raised
                    /\ back.path_found = answer.store.path_found
                    /\ back.path_length = answer.store.path_length
                    /\ HopsOf(p_back) = HopsOf(answer.processor)

\* a two-hop path found from checkout to home, against the direction of
\* both relationships on it
C36_Witness ==
    /\ answer.op = "find_shortest_path"
    /\ answer.start_id = CheckoutUrl /\ answer.end_id = HomeUrl
    /\ answer.store.path_found /\ answer.store.path_length = 2
    /\ HopsOf(answer.processor) = 2
    /\ \A i \in DOMAIN answer.store.relationships :
        LET r == answer.graph.rels[answer.store.relationships[i]]
        IN  r.from = answer.store.nodes[i + 1] /\ r.to = answer.store.nodes[i]

default_max_depth == 10

\* a NavigationTool.get_navigation_path call
GetNavigationPath ==
    /\ \E start_node_id \in QueryIds, target_node_id \in QueryIds :
       \E path \in StorePaths(Graph, start_node_id, target_node_id, default_max_depth),
          fallback_path \in FallbackPaths(Graph, start_node_id, target_node_id,
                                          default_max_depth) :
        LET path_nodes == p_find_shortest_path(Graph, start_node_id, target_node_id,
                                               default_max_depth, path, fallback_path)
        IN  answer' = [op |-> "get_navigation_path", graph |-> Graph,
                       start_id |-> start_node_id, end_id |-> target_node_id,
                       path_nodes |-> path_nodes,
                       navigation |-> get_navigation_path(Graph, path_nodes)]
    /\ UNCHANGED <<storeVars, manager, crawlVars, node_embeddings_cache, callers>>

\* NavigationTool._get_current_location
_get_current_location == Url("", "", <<"homepage">>, "")

\* the start process_navigation_query searches from
StartOf(start_location) ==
    IF start_location = EmptyUrl THEN _get_current_location ELSE start_location

NavigationReply(status, text, from, to, target_found, navigation_path) ==
    [status |-> status, raised |-> FALSE,
     message |-> [text |-> text, from |-> from, to |-> to],
     target_found |-> target_found, navigation_path |-> navigation_path]

\* process_navigation_query without its test of the navigation path
process_navigation_query_unchecked(G, similar_nodes, start_location, path, fallback_path) ==
    IF similar_nodes = <<>>
    THEN NavigationReply("error", "No matching destinations found", EmptyUrl, EmptyUrl,
                         <<>>, <<>>)
    ELSE LET best_match == similar_nodes[1]
             target_node_id == best_match.node_id
             start == StartOf(start_location)
             navigation_path ==
                get_navigation_path(G, p_find_shortest_path(G, start, target_node_id,
                                        default_max_depth, path, fallback_path))
         IN  NavigationReply("success", "", EmptyUrl, EmptyUrl, <<>>,
                             navigation_path.steps)

\* NavigationTool.process_navigation_query from step 2 on; similar_nodes is
\* what find_similar_nodes returned, path and fallback_path the rows of the
\* two path queries.  The message is the f-string, kept as its parts.
process_navigation_query(G, similar_nodes, start_location, path, fallback_path) ==
    IF similar_nodes = <<>>
    THEN NavigationReply("error", "No matching destinations found", EmptyUrl, EmptyUrl,
                         <<>>, <<>>)
    ELSE LET best_match == similar_nodes[1]
             target_node_id == best_match.node_id
             start == StartOf(start_location)
             navigation_path ==
                get_navigation_path(G, p_find_shortest_path(G, start, target_node_id,
                                        default_max_depth, path, fallback_path))
         IN  IF navigation_path.none \/ navigation_path.steps = <<>>
             THEN NavigationReply("error", "No navigation path found", start,
                                  target_node_id, <<best_match>>, <<>>)
             ELSE NavigationReply("success", "", EmptyUrl, EmptyUrl, <<>>,
                                  navigation_path.steps)

StartLocations == QueryIds \cup {EmptyUrl}

\* a NavigationTool.process_navigation_query call
ProcessNavigationQuery ==
    /\ \E search_query \in SearchQueries, start_location \in StartLocations :
        LET r == find_similar_nodes(Graph, node_embeddings_cache, search_query, 3)
            start == StartOf(start_location)
            target == IF r.result = <<>> THEN EmptyUrl ELSE r.result[1].node_id
        IN  \E path \in StorePaths(Graph, start, target, default_max_depth),
               fallback_path \in FallbackPaths(Graph, start, target, default_max_depth) :
                /\ answer' = [op |-> "process_navigation_query", graph |-> Graph,
                              search_query |-> search_query,
                              start_location |-> start_location,
                              similar_nodes |-> r.result,
                              store |-> find_shortest_path(Graph, start, target,
                                                           default_max_depth, path),
                              reply |-> process_navigation_query(Graph, r.result,
                                            start_location, path, fallback_path)]
                /\ node_embeddings_cache' = r.cache
    /\ UNCHANGED <<storeVars, manager, crawlVars, callers>>

\* a Neo4jManager.find_similar_pages call
FindSimilarPages ==
    /\ \E vector \in QueryVectors, threshold \in Thresholds, limit \in ResultLimits :
        answer' = [op |-> "find_similar_pages", graph |-> Graph,
                   vector |-> vector, threshold |-> threshold, limit |-> limit,
                   store |-> find_similar_pages(Graph, vector, threshold, limit)]
    /\ UNCHANGED <<storeVars, manager, crawlVars, node_embeddings_cache, callers>>

\* a SemanticSearch.find_similar_nodes call
FindSimilarNodes ==
    /\ \E search_query \in SearchQueries, limit \in ResultLimits :
        LET r == find_similar_nodes(Graph, node_embeddings_cache, search_query, limit)
        IN  /\ answer' = [op |-> "find_similar_nodes", graph |-> Graph,
                          search_query |-> search_query, limit |-> limit,
                          result |-> r.result, similar_nodes |-> r.similar_nodes]
            /\ node_embeddings_cache' = r.cache
    /\ UNCHANGED <<storeVars, manager, crawlVars, callers>>

\* the home page is crawled again and its text has changed
RecrawlInputs == {[url |-> HomeUrl, content |-> "c2", vector |-> <<1, 1>>]}
Recrawl == UpsertPageFrom(RecrawlInputs)

QueryNext ==
    \/ FindShortestPath \/ FindSimilarPages \/ FindSimilarNodes \/ Recrawl
    \/ GetNavigationPath \/ ProcessNavigationQuery

SpecQuery == QueryInit /\ [][QueryNext]_vars

(***************************************************************************)
(* Claims about the queries.                                               *)
(***************************************************************************)
\* C6: for a # b, find_shortest_path(a, b, k) answers "not found", not an
\* error, when both nodes exist and no path of at most k hops joins them, and
\* answers an error when a or b does not exist; the two answers differ on
\* the manager's result and on what neo4j_processor hands on.
C6_NoPathIsNotMissingNode ==
    answer.op = "find_shortest_path" /\ answer.start_id # answer.end_id
    => LET G == answer.graph
           Exists(id) == \E i \in DOMAIN G.nodes : G.nodes[i].key = id
           NoPath == \A i, j \in DOMAIN G.nodes :
                        G.nodes[i].key = answer.start_id /\ G.nodes[j].key = answer.end_id
                        => j \notin Ball(G, {i}, answer.max_depth, RelTypes(G))
           no_path == "No path exists between the specified nodes"
       IN  /\ Exists(answer.start_id) /\ Exists(answer.end_id) /\ NoPath
              => /\ ~answer.store.raised
                 /\ ~answer.store.path_found
                 /\ answer.store.error = no_path
                 /\ answer.processor = None
           /\ ~Exists(answer.start_id) \/ ~Exists(answer.end_id)
              => /\ answer.store.raised \/ answer.store.error \notin {"", no_path}
                 /\ answer.processor # None

\* C7: find_shortest_path(a, a, k) returns a found path of one node, no
\* relationship and length 0, for every node a of the graph and every k >= 0.
C7_SameNodeZeroHops ==
    (/\ answer.op = "find_shortest_path"
     /\ answer.start_id = answer.end_id
     /\ \E i \in DOMAIN answer.graph.nodes :
            answer.graph.nodes[i].key = answer.start_id)
    => /\ ~answer.store.raised
       /\ answer.store.path_found
       /\ Len(answer.store.nodes) = 1
       /\ answer.graph.nodes[answer.store.nodes[1]].key = answer.start_id
       /\ answer.store.relationships = <<>>
       /\ answer.store.path_length = 0

StepsFollowPath ==
    LET G == answer.graph
        path == answer.path_nodes.nodes
        steps == answer.navigation.steps
    IN  /\ ~answer.navigation.none
        /\ Len(steps) = Len(path)
        /\ \A i \in DOMAIN steps :
            /\ steps[i].step_number = i
            /\ steps[i].node_id = G.nodes[path[i]].key
            /\ 1 < i /\ i < Len(steps) /\ G.nodes[path[i]].label = "Page"
               => steps[i].action = "navigate"
            /\ 1 < i /\ i < Len(steps) /\ G.nodes[path[i]].label = "Element"
               => steps[i].action = "click"

PathOfAtLeast(n) ==
    /\ answer.op = "get_navigation_path"
    /\ ~answer.path_nodes.none
    /\ Len(answer.path_nodes.nodes) >= n

\* C11 as stated: get_navigation_path turns a path of n nodes into n steps
\* numbered 1..n in path order; step 1 has action 'start', the last step has
\* action 'destination', an intermediate Page 'navigate', an intermediate
\* Element 'click'.
C11_StepsStartToDestination ==
    PathOfAtLeast(1)
    => /\ StepsFollowPath
       /\ answer.navigation.steps[1].action = "start"
       /\ answer.navigation.steps[Len(answer.navigation.steps)].action = "destination"

\* C11, amended: the same for every path of n >= 2 nodes; the path of one
\* node (start = target) is the single step 1 with action 'start'.
C11_StepsOfPath ==
    /\ PathOfAtLeast(2)
       => /\ StepsFollowPath
          /\ answer.navigation.steps[1].action = "start"
          /\ answer.navigation.steps[Len(answer.navigation.steps)].action = "destination"
    /\ PathOfAtLeast(1) /\ Len(answer.path_nodes.nodes) = 1
       => /\ StepsFollowPath
          /\ answer.navigation.steps[1].action = "start"

\* home, products, the button, checkout: start, navigate, click, destination
C11_Witness ==
    /\ answer.op = "get_navigation_path"
    /\ answer.start_id = HomeUrl /\ answer.end_id = CheckoutUrl
    /\ ~answer.navigation.none
    /\ [i \in DOMAIN answer.navigation.steps |-> answer.navigation.steps[i].node_id]
        = <<HomeUrl, ProductsUrl, BuyButton, CheckoutUrl>>
    /\ [i \in DOMAIN answer.navigation.steps |-> answer.navigation.steps[i].action]
        = <<"start", "navigate", "click", "destination">>

\* C21: every node a similarity query returns has a stored, non-empty
\* embedding vector: a Page stored without one is in no result of
\* find_similar_pages or find_similar_nodes.
C21_ResultsHaveStoredVector ==
    LET stored == answer.graph.nodes
        HasVector(url) == \A n \in DOMAIN stored :
                             stored[n].label = "Page" /\ stored[n].key = url
                             => stored[n].vector # NoVector
    IN  /\ answer.op = "find_similar_pages"
           => \A i \in DOMAIN answer.store.pages : HasVector(answer.store.pages[i].url)
        /\ answer.op = "find_similar_nodes"
           => \A i \in DOMAIN answer.result : HasVector(answer.result[i].node_id)

\* C22: find_similar_pages rejects an empty query vector and a query vector
\* of magnitude zero: it raises before it runs a database query and returns
\* no result list.
C22_EmptyOrZeroVectorRejected ==
    (/\ answer.op = "find_similar_pages"
     /\ \A i \in DOMAIN answer.vector : answer.vector[i] = 0)
    => /\ answer.store.raised
       /\ ~answer.store.queried
       /\ answer.store.pages = <<>>

\* the zero vector of the stored dimension, with every other argument valid,
\* asked of a graph whose pages have vectors
C22_Witness ==
    /\ answer.op = "find_similar_pages"
    /\ answer.vector = <<0, 0>>
    /\ answer.threshold = [num |-> 0, den |-> 1] /\ answer.limit = 5
    /\ \E n \in DOMAIN answer.graph.nodes : Len(answer.graph.nodes[n].vector) = 2
    /\ answer.store.raised

\* C25: when the store reports that no path joins the start and the best
\* match, process_navigation_query returns without an exception a result
\* whose status is not 'success' and which names the start and the target it
\* tried.
C25_NoPathIsStructuredResult ==
    (/\ answer.op = "process_navigation_query"
     /\ answer.similar_nodes # <<>>
     /\ ~answer.store.raised /\ ~answer.store.path_found)
    => /\ ~answer.reply.raised
       /\ answer.reply.status # "success"
       /\ answer.reply.navigation_path = <<>>
       /\ answer.reply.message.from = StartOf(answer.start_location)
       /\ answer.reply.message.to = answer.similar_nodes[1].node_id
       /\ answer.reply.target_found = <<answer.similar_nodes[1]>>

\* two pages of the graph that no path joins
C25_Witness ==
    /\ answer.op = "process_navigation_query"
    /\ answer.similar_nodes # <<>>
    /\ answer.store.error = "No path exists between the specified nodes"
    /\ answer.reply.status = "error"
    /\ answer.reply.message.from = answer.start_location
    /\ answer.reply.message.from # answer.reply.message.to

\* C26: find_similar_nodes ranks every node by an embedding of the content
\* the node has when the query runs; after a re-crawl that changed a page's
\* content the score of the page is computed from the new content, never
\* from the embedding cached before the re-crawl.
C26_RankedByCurrentContent ==
    answer.op = "find_similar_nodes"
    => \A i \in DOMAIN answer.similar_nodes :
          answer.similar_nodes[i].score
             = Cosine(encode(answer.search_query), encode(answer.similar_nodes[i].content))

\* C29: a query-time error reaches the caller as an explicit failure: an
\* empty query vector or a threshold outside [0, 1] makes find_similar_pages
\* raise, and a start or end node that is not in the graph makes the path
\* query fail at the manager and at neo4j_processor, which does not hand on
\* "no path" (None) for it.
C29_QueryErrorsAreExplicit ==
    /\ (/\ answer.op = "find_similar_pages"
        /\ \/ answer.vector = <<>>
           \/ answer.threshold.num < 0
           \/ answer.threshold.num > answer.threshold.den)
       => answer.store.raised /\ answer.store.pages = <<>>
    /\ (/\ answer.op = "find_shortest_path"
        /\ \E id \in {answer.start_id, answer.end_id} :
              \A n \in DOMAIN answer.graph.nodes : answer.graph.nodes[n].key # id)
       => /\ answer.store.raised \/ answer.store.error # ""
          /\ answer.processor # None

(***************************************************************************)
(* Embedding calls: ContentProcessor.create_embedding of backend/graph     *)
(* (content_processor.py) and of backend/graph_redo (neo4j_manager.py),    *)
(* against an embedding service that answers each request as it likes.     *)
(***************************************************************************)
\* ContentProcessor.__init__ (backend/graph): self.max_retries
embedding_max_retries == 3

\* what client.embeddings.create does on one request: returns a vector or
\* raises openai.RateLimitError, another openai.APIError, or something else
ServiceAnswers == {"ok", "rate_limit", "api_error", "error"}

\* the for loop of backend/graph's create_embedding, from attempt on
RECURSIVE embedding_loop(_, _, _)
embedding_loop(attempt, text, service) ==
    IF attempt = embedding_max_retries
    THEN [raised |-> FALSE, embedding |-> NoVector, requests |-> attempt]
    ELSE CASE service[attempt + 1] = "ok" ->
                [raised |-> FALSE, embedding |-> Embedding(text),
                 requests |-> attempt + 1]
           [] service[attempt + 1] \in {"rate_limit", "api_error"} ->
                embedding_loop(attempt + 1, text, service)
           [] OTHER ->
                [raised |-> FALSE, embedding |-> NoVector, requests |-> attempt + 1]

\* ContentProcessor.create_embedding (backend/graph/content_processor.py)
g_create_embedding(text, service) ==
    IF text = "" THEN [raised |-> FALSE, embedding |-> NoVector, requests |-> 0]
    ELSE embedding_loop(0, text, service)

\* ContentProcessor.create_embedding (backend/graph_redo/neo4j_manager.py)
create_embedding(text, service) ==
    IF text = "" THEN [raised |-> TRUE, embedding |-> NoVector, requests |-> 0]
    ELSE IF service[1] = "ok"
    THEN [raised |-> FALSE, embedding |-> Embedding(text), requests |-> 1]
    ELSE [raised |-> TRUE, embedding |-> NoVector, requests |-> 1]

EmbedTexts == {"", "home", "products"}

EmbedInit ==
    /\ nodes = <<>>
    /\ rels = <<>>
    /\ now = 0
    /\ upserted = NoMap
    /\ manager \in {"graph", "graph_redo"}
    /\ CrawlIdle
    /\ QueryIdle

\* one create_embedding call; service[i] is the answer to request i
CreateEmbedding ==
    /\ \E text \in EmbedTexts, service \in [1..embedding_max_retries -> ServiceAnswers] :
        answer' = [op |-> "create_embedding", text |-> text, service |-> service,
                   result |-> IF manager = "graph"
                              THEN g_create_embedding(text, service)
                              ELSE create_embedding(text, service)]
    /\ UNCHANGED <<storeVars, manager, crawlVars, node_embeddings_cache, callers>>

SpecEmbed == EmbedInit /\ [][CreateEmbedding]_vars

\* C24: create_embedding makes at most 3 requests when the service answers
\* with rate-limit errors, and exactly 2 when it answers with another
\* service error both times; when it gives up the caller gets no embedding
\* and never an exception.
C24_EmbeddingRetries ==
    (answer.op = "create_embedding" /\ answer.text # "")
    => LET service == answer.service
           result == answer.result
       IN  /\ ~result.raised
           /\ result.requests <= 3
           /\ (\A i \in 1..3 : service[i] = "rate_limit")
              => result.requests = 3 /\ result.embedding = NoVector
           /\ service[1] = "api_error" /\ service[2] = "api_error"
              => result.requests = 2 /\ result.embedding = NoVector

(***************************************************************************)
(* ContentProcessor.batch_embed (backend/graph/content_processor.py): the  *)
(* texts that are not blank go to the service in batches; every request    *)
(* is answered as the service likes.  A blank text is "", None is NoVector.*)
(***************************************************************************)
\* batch_embed: batch_size
batch_size == 20

\* valid_indices: the positions of the texts that are not blank, ascending
valid_indices(texts) ==
    LET S == {i \in DOMAIN texts : texts[i] # ""}
    IN  [k \in 1..Cardinality(S) |->
            CHOOSE i \in S : Cardinality({j \in S : j < i}) = k - 1]

\* valid_texts: the texts at those positions
valid_texts(texts) ==
    LET at == valid_indices(texts) IN [k \in DOMAIN at |-> texts[at[k]]]

\* seq[i:i + batch_size], i counted from 0
BatchSlice(seq, i) ==
    SubSeq(seq, i + 1, IF i + batch_size < Len(seq) THEN i + batch_size ELSE Len(seq))

\* the loop over response.data written with consecutive positions from the
\* first index of the batch on
store_batch_packed(embeddings, batch_indices, data) ==
    [k \in DOMAIN embeddings |->
        IF k - batch_indices[1] + 1 \in DOMAIN data
        THEN data[k - batch_indices[1] + 1] ELSE embeddings[k]]

\* for j, embedding_data in enumerate(response.data):
\*     embeddings[batch_indices[j]] = embedding_data.embedding
store_batch(embeddings, batch_indices, data) ==
    [k \in DOMAIN embeddings |->
        IF \E j \in DOMAIN data : batch_indices[j] = k
        THEN data[CHOOSE j \in DOMAIN data : batch_indices[j] = k]
        ELSE embeddings[k]]

\* the outer for loop moves on to the batch after the one at a.i, or ends
next_batch(a) ==
    [a EXCEPT !.i = a.i + batch_size, !.attempt = 0,
              !.at = IF a.i + batch_size >= Len(a.valid_indices)
                     THEN "returned" ELSE "request"]

\* the texts handed to batch_embed: n texts, blank at the positions of E,
\* neighbours with different embeddings elsewhere
BatchTexts(n, E) ==
    [i \in 1..n |-> IF i \in E THEN ""
                    ELSE <<"home", "products", "checkout", "about">>[(i % 4) + 1]]

BatchLengths == {0, 1, 2, 21, 22, 41}
BlankSets == SUBSET {1, 2, 20, 21, 22}

BatchInit ==
    /\ nodes = <<>>
    /\ rels = <<>>
    /\ now = 0
    /\ upserted = NoMap
    /\ manager = "graph"
    /\ CrawlIdle
    /\ QueryIdle

\* batch_embed is called: the code up to the first request
BatchEmbed ==
    /\ answer.op = "none"
    /\ \E n \in BatchLengths, E \in BlankSets :
        LET texts == BatchTexts(n, E)
        IN  answer' = [op |-> "batch_embed", texts |-> texts,
                       valid_indices |-> valid_indices(texts),
                       embeddings |-> IF texts = <<>> THEN <<>>
                                      ELSE [i \in DOMAIN texts |-> NoVector],
                       i |-> 0, attempt |-> 0, failed |-> {},
                       at |-> IF valid_texts(texts) = <<>>
                              THEN "returned" ELSE "request"]
    /\ UNCHANGED <<storeVars, manager, crawlVars, node_embeddings_cache, callers>>

\* one client.embeddings.create request for the batch at answer.i and what
\* the attempt loop does with its answer
BatchRequest ==
    /\ answer.op = "batch_embed" /\ answer.at = "request"
    /\ \E service \in ServiceAnswers :
        LET batch == BatchSlice(valid_texts(answer.texts), answer.i)
            batch_indices == BatchSlice(answer.valid_indices, answer.i)
            data == [j \in DOMAIN batch |-> Embedding(batch[j])]
        IN  answer' =
              CASE service = "ok" ->
                    next_batch([answer EXCEPT
                        !.embeddings = store_batch(answer.embeddings, batch_indices, data)])
                [] service \in {"rate_limit", "api_error"} ->
                    IF answer.attempt + 1 < embedding_max_retries
                    THEN [answer EXCEPT !.attempt = answer.attempt + 1]
                    ELSE next_batch([answer EXCEPT !.failed = answer.failed \cup {answer.i}])
                [] OTHER ->
                    next_batch([answer EXCEPT !.failed = answer.failed \cup {answer.i}])
    /\ UNCHANGED <<storeVars, manager, crawlVars, node_embeddings_cache, callers>>

BatchNext == BatchEmbed \/ BatchRequest

SpecBatch == BatchInit /\ [][BatchNext]_vars

\* the start (counted from 0) of the batch that carried the text at position k
BatchOf(a, k) ==
    LET j == CHOOSE x \in DOMAIN a.valid_indices : a.valid_indices[x] = k
    IN  ((j - 1) \div batch_size) * batch_size

\* C37: batch_embed returns as many entries as it was given texts; entry i
\* is the embedding of text i, or None when text i is blank or its batch
\* failed, whatever happened to the other texts and batches.
C37_BatchEmbedKeepsPositions ==
    (answer.op = "batch_embed" /\ answer.at = "returned")
    => /\ Len(answer.embeddings) = Len(answer.texts)
       /\ \A k \in DOMAIN answer.texts :
            answer.embeddings[k] =
                IF answer.texts[k] = "" \/ BatchOf(answer, k) \in answer.failed
                THEN NoVector
                ELSE Embedding(answer.texts[k])

\* 41 texts, blank ones among them, returned after the first batch failed
\* and the second succeeded
C37_Witness ==
    /\ answer.op = "batch_embed" /\ answer.at = "returned"
    /\ Len(answer.texts) = 41
    /\ answer.texts[2] = "" /\ answer.texts[20] = ""
    /\ Len(answer.valid_indices) > batch_size
    /\ answer.failed = {0}
    /\ answer.embeddings[1] = NoVector
    /\ answer.embeddings[41] = Embedding(answer.texts[41])

(***************************************************************************)
(* URL normalization on its own: _normalize_url of backend/graph and       *)
(* normalize_url of backend/graph_redo, applied to a URL and then to       *)
(* their own results.                                                      *)
(***************************************************************************)
MaxPathTokens == 4

RECURSIVE PathsOf(_)
PathsOf(n) ==
    IF n = 0 THEN {<<>>}
    ELSE LET shorter == PathsOf(n - 1)
         IN  shorter \cup {p \o <<tok>> : p \in {q \in shorter : Len(q) = n - 1},
                                          tok \in {"/", "Products", ";"}}

\* absolute URLs as a page or a configuration can spell them
NormalizeInputs ==
    {Url(scheme, host, path, frag) :
        scheme \in {"http", "HTTP"}, host \in {"site", "Site"},
        path \in {p \in PathsOf(MaxPathTokens) : p = <<>> \/ p[1] = "/"},
        frag \in {"", "top"}}

\* the normalizer of the crawler in use
Normalize(url) ==
    IF manager = "graph" THEN _normalize_url(url) ELSE normalize_url(url)

NormalizeInit ==
    /\ nodes = <<>>
    /\ rels = <<>>
    /\ now = 0
    /\ upserted = NoMap
    /\ manager \in {"graph", "graph_redo"}
    /\ CrawlIdle
    /\ answer \in {[op |-> "url", url |-> u] : u \in NormalizeInputs}
    /\ node_embeddings_cache = NoMap
    /\ callers = <<>>

\* the normalizer is applied to the URL, or to its own last result
NormalizeUrl ==
    /\ answer.op \in {"url", "normalize_url"}
    /\ LET url == IF answer.op = "url" THEN answer.url ELSE answer.result
       IN  answer' = [op |-> "normalize_url", url |-> url, result |-> Normalize(url)]
    /\ UNCHANGED <<storeVars, manager, crawlVars, node_embeddings_cache, callers>>

SpecNormalize == NormalizeInit /\ [][NormalizeUrl]_vars

\* C27: normalizing a normalized URL changes nothing:
\* normalize(normalize(u)) = normalize(u), for _normalize_url and for
\* normalize_url.
C27_NormalizeIsIdempotent ==
    [][answer.op = "normalize_url" /\ answer'.op = "normalize_url"
       => answer'.result = answer.result]_vars

\* two spellings that differ only in host case, fragment or trailing slash
SameButHostCaseFragmentSlash(u, v) ==
    /\ u.scheme = v.scheme
    /\ Lower(u.host) = Lower(v.host)
    /\ RStrip(u.path) = RStrip(v.path)

\* C28: the normalized URL has the scheme and the host in lower case, the
\* path in the case it was written in, no fragment, and no trailing slash
\* except that the bare root path "/" is kept; two URLs that differ only in
\* host case, fragment or trailing slash have the same normalized URL.
C28_NormalForm ==
    answer.op = "normalize_url"
    => /\ answer.result.scheme = Lower(answer.url.scheme)
       /\ answer.result.host = Lower(answer.url.host)
       /\ answer.result.frag = ""
       /\ answer.result.path = IF answer.url.path = <<"/">> THEN <<"/">>
                               ELSE RStrip(answer.url.path)
       /\ \A v \in NormalizeInputs :
            SameButHostCaseFragmentSlash(answer.url, v) => Normalize(v) = answer.result

====
